---------------------------- MODULE Spec2Model ----------------------------
(***************************************************************************)
(* Model of the representApp backend: the OCD identifier classifier        *)
(* (utils/ocd_parser.py), the OpenStates client for one division           *)
(* (services/openstates.py), the division-enumeration aggregation that      *)
(* drives it, and the geolocation lookup handler                            *)
(* (handlers/address_lookup.py).                                            *)
(*                                                                         *)
(* Python strings that the code inspects character by character            *)
(* (startswith, "in", replace, split, re.search, re.match) are modelled as *)
(* sequences of one-character strings, so that the string tests are        *)
(* computed the way the code computes them.                                *)
(***************************************************************************)
EXTENDS Integers, Sequences, FiniteSets, TLC

(***************************************************************************)
(* Bounds of the model.                                                    *)
(***************************************************************************)
\* longest identifier of the classifier specification, in segments after the root
MaxSegs == 3

(***************************************************************************)
(* Character strings.                                                      *)
(***************************************************************************)
LowerChars == {"a","b","c","d","e","f","g","h","i","j","k","l","m",
               "n","o","p","q","r","s","t","u","v","w","x","y","z"}

DigitChars == {"0","1","2","3","4","5","6","7","8","9"}

\* str.startswith(p)
StartsWith(s, p) ==
    /\ Len(s) >= Len(p)
    /\ \A k \in 1..Len(p) : s[k] = p[k]

\* p occurs in s at position i
OccursAt(s, p, i) ==
    /\ i >= 1
    /\ i + Len(p) - 1 <= Len(s)
    /\ \A k \in 1..Len(p) : s[i + k - 1] = p[k]

\* p in s
Contains(s, p) == \E i \in 1..(Len(s) + 1) : OccursAt(s, p, i)

\* the characters of s from position i on
Tail_(s, i) == SubSeq(s, i, Len(s))

\* str.replace(p, ""): every non-overlapping occurrence of p, left to right
RECURSIVE RemoveAll(_, _)
RemoveAll(s, p) ==
    IF s = <<>> \/ p = <<>> THEN s
    ELSE IF OccursAt(s, p, 1) THEN RemoveAll(Tail_(s, Len(p) + 1), p)
    ELSE <<s[1]>> \o RemoveAll(Tail_(s, 2), p)

\* position of the first occurrence of the character c in s, 0 when there is none
FirstIndex(s, c) ==
    IF \E i \in 1..Len(s) : s[i] = c
    THEN CHOOSE i \in 1..Len(s) : s[i] = c /\ \A j \in 1..(i - 1) : s[j] # c
    ELSE 0

\* str.split(c): the pieces between the occurrences of c (always at least one)
RECURSIVE Split(_, _)
Split(s, c) ==
    LET i == FirstIndex(s, c)
    IN  IF i = 0 THEN <<s>>
        ELSE <<SubSeq(s, 1, i - 1)>> \o Split(Tail_(s, i + 1), c)

\* re.search(p + cls + "+", s): p somewhere in s, followed by at least one
\* character of the class cls
SearchThenClass(s, p, cls) ==
    \E i \in 1..Len(s) :
        /\ OccursAt(s, p, i)
        /\ i + Len(p) <= Len(s)
        /\ s[i + Len(p)] \in cls

(***************************************************************************)
(* Literals of utils/ocd_parser.py.                                        *)
(***************************************************************************)
OcdPrefix == <<"o","c","d","-","d","i","v","i","s","i","o","n","/">>

CountryUs == <<"c","o","u","n","t","r","y",":","u","s">>

CountryUsState == CountryUs \o <<"/","s","t","a","t","e",":">>

SlashCd == <<"/","c","d",":">>

KeyState == <<"s","t","a","t","e">>

KeyCounty == <<"c","o","u","n","t","y">>

KeyPlace == <<"p","l","a","c","e">>

\* the priority list of parse_ocd_id
DivTypes ==
    <<<<"c","d">>, <<"s","l","d","u">>, <<"s","l","d","l">>, KeyCounty, KeyPlace,
      <<"d","i","s","t","r","i","c","t">>>>

(***************************************************************************)
(* utils/ocd_parser.py: parse_government_level.                            *)
(* A result is [err, value]: err is "" on a normal return and the name of  *)
(* the exception otherwise.                                                *)
(***************************************************************************)
Returned(v) == [err |-> "", value |-> v]

Raised(e) == [err |-> e, value |-> ""]

\* "if not ocd_id or not ocd_id.startswith('ocd-division/')"
InvalidFormat(ocd_id) == ocd_id = <<>> \/ ~StartsWith(ocd_id, OcdPrefix)

\* "if 'country:us' not in ocd_id"
NonUs_Never(ocd_id) == FALSE

NonUs(ocd_id) == ~Contains(ocd_id, CountryUs)

\* Pattern 1: re.search(r"/cd:\d+", parts)
Pattern1_NeedsStateBeforeCd(parts) ==
    \E i \in 1..Len(parts) :
        /\ OccursAt(parts, SlashCd, i)
        /\ i + Len(SlashCd) <= Len(parts)
        /\ parts[i + Len(SlashCd)] \in DigitChars
        /\ i = Len(CountryUsState) + 3

Pattern1(parts) == SearchThenClass(parts, SlashCd, DigitChars)

\* Pattern 2: parts == "country:us" or parts == "country:us/district:dc"
Pattern2_CountryOnly(parts) == parts = CountryUs

Pattern2(parts) ==
    \/ parts = CountryUs
    \/ parts = CountryUs \o <<"/","d","i","s","t","r","i","c","t",":","d","c">>

\* Pattern 3: re.search(r"/county:[a-z_]+", parts)
Pattern3(parts) == SearchThenClass(parts, <<"/","c","o","u","n","t","y",":">>, LowerChars \cup {"_"})

\* Pattern 4: re.search(r"/place:[a-z_]+", parts)
Pattern4(parts) == SearchThenClass(parts, <<"/","p","l","a","c","e",":">>, LowerChars \cup {"_"})

\* Pattern 5: re.search(r"/sldu:\d+", parts)
Pattern5(parts) == SearchThenClass(parts, <<"/","s","l","d","u",":">>, DigitChars)

\* Pattern 6: re.search(r"/sldl:\d+", parts)
Pattern6(parts) == SearchThenClass(parts, <<"/","s","l","d","l",":">>, DigitChars)

\* Pattern 7: re.match(r"country:us/state:[a-z]{2}$", parts); "$" also
\* matches just before a final newline
Pattern7(parts) ==
    LET n == Len(CountryUsState)
    IN  /\ StartsWith(parts, CountryUsState)
        /\ Len(parts) >= n + 2
        /\ parts[n + 1] \in LowerChars
        /\ parts[n + 2] \in LowerChars
        /\ \/ Len(parts) = n + 2
           \/ Len(parts) = n + 3 /\ parts[n + 3] = "\n"

\* Default: "/state:" in parts
Pattern8(parts) == Contains(parts, <<"/","s","t","a","t","e",":">>)

\* the ordered pattern tests on the identifier without its root marker
ClassifyParts(parts) ==
    IF Pattern1(parts) THEN Returned("federal")
    ELSE IF Pattern2(parts) THEN Returned("federal")
    ELSE IF Pattern3(parts) THEN Returned("local")
    ELSE IF Pattern4(parts) THEN Returned("local")
    ELSE IF Pattern5(parts) THEN Returned("state")
    ELSE IF Pattern6(parts) THEN Returned("state")
    ELSE IF Pattern7(parts) THEN Returned("state")
    ELSE IF Pattern8(parts) THEN Returned("state")
    ELSE Returned("local")

parse_government_level(ocd_id) ==
    IF InvalidFormat(ocd_id) THEN Raised("ValueError")
    ELSE IF NonUs(ocd_id) THEN Raised("ValueError")
    ELSE ClassifyParts(RemoveAll(ocd_id, OcdPrefix))

(***************************************************************************)
(* utils/ocd_parser.py: parse_ocd_id.                                      *)
(* The dictionary built from the segments is a function from keys to       *)
(* values; a later segment with the same key overwrites an earlier one.    *)
(* division_type, identifier and government_level are the three entries    *)
(* the code adds to it (has_type tells whether the first two were added).  *)
(***************************************************************************)
PartKey(part) == SubSeq(part, 1, FirstIndex(part, ":") - 1)

\* the loop "for part in parts: if ':' in part: components[key] = value"
Components(parts) ==
    LET idx == {i \in 1..Len(parts) : FirstIndex(parts[i], ":") # 0}
        last(k) == CHOOSE i \in idx :
                       /\ PartKey(parts[i]) = k
                       /\ \A j \in idx : j > i => PartKey(parts[j]) # k
    IN  [k \in {PartKey(parts[i]) : i \in idx} |-> Tail_(parts[last(k)], FirstIndex(parts[last(k)], ":") + 1)]

\* the loop over the priority list: position of the first listed key that is
\* in the dictionary, 0 when none is
FirstDivType_LastListed(comps) ==
    IF \E n \in 1..Len(DivTypes) : DivTypes[n] \in DOMAIN comps
    THEN CHOOSE n \in 1..Len(DivTypes) :
             /\ DivTypes[n] \in DOMAIN comps
             /\ \A m \in (n + 1)..Len(DivTypes) : DivTypes[m] \notin DOMAIN comps
    ELSE 0

FirstDivType(comps) ==
    IF \E n \in 1..Len(DivTypes) : DivTypes[n] \in DOMAIN comps
    THEN CHOOSE n \in 1..Len(DivTypes) :
             /\ DivTypes[n] \in DOMAIN comps
             /\ \A m \in 1..(n - 1) : DivTypes[m] \notin DOMAIN comps
    ELSE 0

parse_ocd_id(ocd_id) ==
    IF InvalidFormat(ocd_id) THEN Raised("ValueError")
    ELSE LET comps == Components(Split(RemoveAll(ocd_id, OcdPrefix), "/"))
             n     == FirstDivType(comps)
             level == parse_government_level(ocd_id)
         IN  IF level.err # "" THEN Raised(level.err)
             ELSE Returned([comps |-> comps,
                            has_type |-> n # 0,
                            division_type |-> IF n # 0 THEN DivTypes[n] ELSE << >>,
                            identifier |-> IF n # 0 THEN comps[DivTypes[n]] ELSE << >>,
                            government_level |-> level.value])

(***************************************************************************)
(* JSON values as the Python code sees them.  A value carries its type in  *)
(* t: None is JNull, a string JStr, a list JList (a sequence of values), a *)
(* dict JDict (a function from key strings to values).  The strings that   *)
(* the classifier inspects (division identifiers) are character sequences; *)
(* the strings that are only copied are TLA+ strings.                      *)
(***************************************************************************)
JNull == [t |-> "null"]

JStr(s) == [t |-> "str", v |-> s]

JList(xs) == [t |-> "list", v |-> xs]

JDict(d) == [t |-> "dict", v |-> d]

EmptyDict == [k \in {} |-> JNull]

\* dict.get(k, default) on the mapping d
Get(d, k, default) == IF k \in DOMAIN d THEN d[k] ELSE default

\* Python truthiness of a JSON value: None, "", [] and {} are false
Truthy(j) ==
    CASE j.t = "null" -> FALSE
      [] j.t = "str"  -> j.v # ""
      [] j.t = "list" -> j.v # << >>
      [] j.t = "dict" -> DOMAIN j.v # {}
      [] j.t = "num"  -> j.n # 0

(***************************************************************************)
(* services/openstates.py: the transformation of one person record         *)
(* (lines 170-219 of get_representatives_by_division).                     *)
(***************************************************************************)
\* party: first party object's name, or the bare string, else None
ExtractParty_LastOfList(party_data) ==
    IF party_data.t = "list" /\ Len(party_data.v) > 0
    THEN IF party_data.v[Len(party_data.v)].t # "dict" THEN Raised("AttributeError")
         ELSE Returned(Get(party_data.v[Len(party_data.v)].v, "name", JNull))
    ELSE IF party_data.t = "str" THEN Returned(party_data)
    ELSE Returned(JNull)

ExtractParty(party_data) ==
    IF party_data.t = "list" /\ Len(party_data.v) > 0
    THEN IF party_data.v[1].t # "dict" THEN Raised("AttributeError")
         ELSE Returned(Get(party_data.v[1].v, "name", JNull))
    ELSE IF party_data.t = "str" THEN Returned(party_data)
    ELSE Returned(JNull)

\* website: the url of the first link that has a non-empty one
RECURSIVE ExtractWebsite(_, _)
ExtractWebsite(links, i) ==
    IF links.t = "null" THEN Raised("TypeError")
    ELSE IF i > Len(links.v) THEN Returned(JNull)
    ELSE IF links.v[i].t # "dict" THEN Raised("AttributeError")
    ELSE IF Truthy(Get(links.v[i].v, "url", JNull)) THEN Returned(links.v[i].v["url"])
    ELSE ExtractWebsite(links, i + 1)

\* government level: the role's own division_id first, the queried
\* division when that one raises ValueError ("not ocd_id" raises it for None
\* and for an empty value; a non-empty value that is no string has no
\* startswith, an AttributeError that is not caught here)
DivisionIdOf_AlwaysQueried(current_role, ocd_id) == JStr(ocd_id)

DivisionIdOf(current_role, ocd_id) == Get(current_role.v, "division_id", JStr(ocd_id))

LevelOfRole_NullOnError(division_id, ocd_id) ==
    LET first == IF division_id.t = "str" THEN parse_government_level(division_id.v)
                 ELSE IF ~Truthy(division_id) THEN Raised("ValueError")
                 ELSE Raised("AttributeError")
    IN  IF first.err = "ValueError" THEN Returned("None") ELSE first

LevelOfRole(division_id, ocd_id) ==
    LET first == IF division_id.t = "str" THEN parse_government_level(division_id.v)
                 ELSE IF ~Truthy(division_id) THEN Raised("ValueError")
                 ELSE Raised("AttributeError")
    IN  IF first.err = "ValueError" THEN parse_government_level(ocd_id) ELSE first

TransformPerson(person_data, ocd_id) ==
    LET current_role   == Get(person_data, "current_role", JDict(EmptyDict))
        party          == ExtractParty(Get(person_data, "party", JList(<< >>)))
        capitol_office == Get(person_data, "capitol_office", JDict(EmptyDict))
        website        == ExtractWebsite(Get(person_data, "links", JList(<< >>)), 1)
        jurisdiction   == Get(person_data, "jurisdiction", JDict(EmptyDict))
    IN  IF party.err # "" THEN Raised(party.err)
        ELSE IF capitol_office.t # "dict" THEN Raised("AttributeError")
        ELSE IF website.err # "" THEN Raised(website.err)
        ELSE IF jurisdiction.t # "dict" THEN Raised("AttributeError")
        ELSE IF current_role.t # "dict" THEN Raised("AttributeError")
        ELSE LET level == LevelOfRole(DivisionIdOf(current_role, ocd_id), ocd_id)
             IN  IF level.err # "" THEN Raised(level.err)
                 ELSE Returned(
                     [id               |-> Get(person_data, "id", JNull),
                      name             |-> Get(person_data, "name", JStr("")),
                      office           |-> Get(current_role.v, "title", JStr("")),
                      party            |-> party.value,
                      email            |-> Get(person_data, "email", JNull),
                      phone            |-> Get(capitol_office.v, "voice", JNull),
                      address          |-> Get(capitol_office.v, "address", JNull),
                      website          |-> website.value,
                      photo_url        |-> Get(person_data, "image", JNull),
                      government_level |-> level.value,
                      jurisdiction     |-> Get(jurisdiction.v, "name", JStr("Unknown"))])

(***************************************************************************)
(* services/openstates.py: the loop over the results, with the             *)
(* de-duplication by id (lines 156-221).                                   *)
(***************************************************************************)
\* "if person_id in seen_ids: continue"
IsDuplicate_Never(person_id, seen_ids) == FALSE

IsDuplicate(person_id, seen_ids) == person_id \in seen_ids

RECURSIVE TransformResults(_, _, _, _, _)
TransformResults(results, i, seen_ids, representatives, ocd_id) ==
    IF i > Len(results) THEN Returned(representatives)
    ELSE IF results[i].t # "dict" THEN Raised("AttributeError")
    ELSE LET person_id == Get(results[i].v, "id", JNull)
         IN  IF person_id.t \in {"list", "dict"} THEN Raised("TypeError")
             ELSE IF IsDuplicate(person_id, seen_ids)
                  THEN TransformResults(results, i + 1, seen_ids, representatives, ocd_id)
             ELSE LET rep == TransformPerson(results[i].v, ocd_id)
                  IN  IF rep.err # "" THEN Raised(rep.err)
                      ELSE TransformResults(results, i + 1, seen_ids \cup {person_id},
                                            Append(representatives, rep.value), ocd_id)

(***************************************************************************)
(* services/openstates.py: get_representatives_by_division.                *)
(*                                                                         *)
(* The HTTP exchange is an input: resp says how requests.get ended         *)
(* (transport), and for a response its status_code, whether response.text  *)
(* is non-empty (has_text) and what response.json() gives (json, with      *)
(* t = "invalid" when the body is not JSON and json() raises).             *)
(*                                                                         *)
(* A result is [err, status, reps, requested]: err is "" on a normal       *)
(* return and the ErrorCode of the ApiException otherwise; requested tells *)
(* whether requests.get was called.                                        *)
(***************************************************************************)
JInvalid == [t |-> "invalid"]

ClientReturn(reps, requested) ==
    [err |-> "", status |-> 0, reps |-> reps, requested |-> requested]

ClientRaise(code, status_code) ==
    [err |-> code, status |-> status_code, reps |-> << >>, requested |-> TRUE]

\* "if govt_level != 'state'": the division is skipped without a query
SkipsLevel_FederalOnly(govt_level) == govt_level = "federal"

SkipsLevel(govt_level) == govt_level # "state"

\* the 429 branch: the body is read before the exception is built
RateLimitBranch(resp) ==
    IF resp.has_text /\ resp.json.t = "invalid"
    THEN ClientRaise("EXTERNAL_SERVICE_ERROR", 503)      \* json() raised
    ELSE IF resp.has_text /\ resp.json.t # "dict"
    THEN ClientRaise("EXTERNAL_SERVICE_ERROR", 503)      \* .get on a non-dict
    ELSE ClientRaise("RATE_LIMIT_EXCEEDED", 503)

\* the 401 branch and the "other non-200" branch
NonOkStatusBranch_RateLimit(resp) == ClientRaise("RATE_LIMIT_EXCEEDED", 503)

NonOkStatusBranch(resp) == ClientRaise("EXTERNAL_SERVICE_ERROR", 503)

\* "if not results: return []"
EmptyResultsBranch_Raise == ClientRaise("EXTERNAL_SERVICE_ERROR", 503)

EmptyResultsBranch == ClientReturn(<< >>, TRUE)

\* the 200 branch: parse the body and transform the results
OkBranch_InternalError(resp, ocd_id) ==
    IF resp.json.t # "dict" THEN ClientRaise("EXTERNAL_SERVICE_ERROR", 503)
    ELSE LET results == Get(resp.json.v, "results", JList(<< >>))
         IN  IF ~Truthy(results) THEN EmptyResultsBranch
             ELSE IF results.t # "list" THEN ClientRaise("EXTERNAL_SERVICE_ERROR", 503)
             ELSE LET out == TransformResults(results.v, 1, {}, << >>, ocd_id)
                  IN  IF out.err # "" THEN ClientRaise("INTERNAL_ERROR", 500)
                      ELSE ClientReturn(out.value, TRUE)

OkBranch(resp, ocd_id) ==
    IF resp.json.t # "dict" THEN ClientRaise("EXTERNAL_SERVICE_ERROR", 503)
    ELSE LET results == Get(resp.json.v, "results", JList(<< >>))
         IN  IF ~Truthy(results) THEN EmptyResultsBranch
             ELSE IF results.t # "list" THEN ClientRaise("EXTERNAL_SERVICE_ERROR", 503)
             ELSE LET out == TransformResults(results.v, 1, {}, << >>, ocd_id)
                  IN  IF out.err # "" THEN ClientRaise("EXTERNAL_SERVICE_ERROR", 503)
                      ELSE ClientReturn(out.value, TRUE)

\* everything after requests.get was called
AfterRequest(resp, ocd_id) ==
    IF resp.transport = "timeout" THEN ClientRaise("EXTERNAL_SERVICE_ERROR", 503)
    ELSE IF resp.transport = "connection_error"
    THEN ClientRaise("EXTERNAL_SERVICE_ERROR", 503)
    ELSE IF resp.status_code = 429 THEN RateLimitBranch(resp)
    ELSE IF resp.status_code = 401 THEN NonOkStatusBranch(resp)
    ELSE IF resp.status_code # 200 THEN NonOkStatusBranch(resp)
    ELSE OkBranch(resp, ocd_id)

get_representatives_by_division(ocd_id, resp) ==
    LET parsed == parse_ocd_id(ocd_id)
    IN  IF parsed.err # "" THEN ClientReturn(<< >>, FALSE)
        ELSE IF SkipsLevel(parsed.value.government_level) THEN ClientReturn(<< >>, FALSE)
        ELSE IF KeyState \notin DOMAIN parsed.value.comps THEN ClientReturn(<< >>, FALSE)
        ELSE IF parsed.value.comps[KeyState] = << >> THEN ClientReturn(<< >>, FALSE)
        ELSE AfterRequest(resp, ocd_id)

(***************************************************************************)
(* handlers/address_lookup.py: the coverage warning of handle              *)
(* (lines 152-161).  A warning is a record [kind, div, levels]: kind       *)
(* "no_representatives" is "No representative data available for this      *)
(* location", kind "missing_levels" is "Limited representative data:       *)
(* missing <levels joined by ', '> level representatives".                 *)
(***************************************************************************)

\* the keys of the grouped dictionary, in insertion order
GroupedKeys == <<"federal", "state", "local">>

\* place in the alphabet of the first letter of each level name: the three
\* names differ in their first letter, which decides sorted()
AlphaRank(level) ==
    CASE level = "federal" -> 6
      [] level = "local"   -> 12
      [] level = "state"   -> 19

\* sorted(S) for a set S of level names
RECURSIVE Sorted(_)
Sorted(S) ==
    IF S = {} THEN << >>
    ELSE LET m == CHOOSE x \in S : \A y \in S : AlphaRank(x) <= AlphaRank(y)
         IN  <<m>> \o Sorted(S \ {m})

\* the set iterated in the order of GroupedKeys (no sorting)
RECURSIVE InKeyOrder(_, _)
InKeyOrder(S, i) ==
    IF i > Len(GroupedKeys) THEN << >>
    ELSE (IF GroupedKeys[i] \in S THEN <<GroupedKeys[i]>> ELSE << >>)
         \o InKeyOrder(S, i + 1)

Warning(kind, div, levels) == [kind |-> kind, div |-> div, levels |-> levels]

\* "', '.join(sorted(missing_levels))"
MissingLevelNames_Unsorted(missing_levels) == InKeyOrder(missing_levels, 1)

MissingLevelNames(missing_levels) == Sorted(missing_levels)

\* total_count representatives in all, government_levels the levels that
\* have at least one
CoverageWarnings(total_count, government_levels) ==
    IF total_count = 0
    THEN <<Warning("no_representatives", 0, << >>)>>
    ELSE IF Len(government_levels) < 3
    THEN LET missing_levels ==
                 {"federal", "state", "local"} \ {government_levels[i] : i \in 1..Len(government_levels)}
         IN  IF missing_levels # {}
             THEN <<Warning("missing_levels", 0, MissingLevelNames(missing_levels))>>
             ELSE << >>
    ELSE << >>

(***************************************************************************)
(* handlers/address_lookup.py: _group_by_government_level.                 *)
(* A representative is a mapping (a dict); the grouped result has the keys *)
(* of GroupedKeys.                                                         *)
(***************************************************************************)
\* the key a representative is appended under
GroupKeyOf_NoFallback(rep_data) == Get(rep_data, "government_level", "state")

GroupKeyOf(rep_data) ==
    LET government_level == Get(rep_data, "government_level", "state")
    IN  IF government_level \in {GroupedKeys[i] : i \in 1..Len(GroupedKeys)}
        THEN government_level
        ELSE "state"

\* the representatives of reps appended under key, in order
RECURSIVE GroupUnder_UnknownDropped(_, _, _)
GroupUnder_UnknownDropped(reps, key, i) ==
    IF i > Len(reps) THEN << >>
    ELSE (IF Get(reps[i], "government_level", "") = key THEN <<reps[i]>> ELSE << >>)
         \o GroupUnder_UnknownDropped(reps, key, i + 1)

RECURSIVE GroupUnder(_, _, _)
GroupUnder(reps, key, i) ==
    IF i > Len(reps) THEN << >>
    ELSE (IF GroupKeyOf(reps[i]) = key THEN <<reps[i]>> ELSE << >>)
         \o GroupUnder(reps, key, i + 1)

group_by_government_level(representatives) ==
    [key \in {"federal", "state", "local"} |-> GroupUnder(representatives, key, 1)]

(***************************************************************************)
(* services/google_maps.py: geocode.                                       *)
(* How the Google Maps library call ended is an input: maps.kind is        *)
(* "results" with the list of results, or the name of the exception it     *)
(* raised.  A result is [err, status, value]: value is None (JNull) or the *)
(* dict with latitude, longitude and formatted_address.                    *)
(***************************************************************************)
ApiReturn(v) == [err |-> "", status |-> 0, value |-> v]

ApiRaise(code, status_code) == [err |-> code, status |-> status_code, value |-> JNull]

\* first_result["geometry"]["location"], ["formatted_address"]: a KeyError
\* when one is not there
WellFormed(first_result) ==
    /\ "geometry" \in DOMAIN first_result
    /\ "location" \in DOMAIN first_result["geometry"]
    /\ "lat" \in DOMAIN first_result["geometry"]["location"]
    /\ "lng" \in DOMAIN first_result["geometry"]["location"]
    /\ "formatted_address" \in DOMAIN first_result

geocode(address, maps) ==
    IF maps.kind = "Timeout" THEN ApiRaise("EXTERNAL_SERVICE_ERROR", 503)
    ELSE IF maps.kind = "ApiError" THEN ApiRaise("EXTERNAL_SERVICE_ERROR", 503)
    ELSE IF maps.kind \in {"HTTPError", "TransportError"}
    THEN ApiRaise("EXTERNAL_SERVICE_ERROR", 503)
    ELSE IF maps.kind # "results" THEN ApiRaise("INTERNAL_ERROR", 500)
    ELSE IF maps.results = << >> THEN ApiReturn(JNull)     \* "if not results"
    ELSE IF ~WellFormed(maps.results[1]) THEN ApiRaise("INTERNAL_ERROR", 500)
    ELSE ApiReturn(JDict(
             [latitude          |-> maps.results[1]["geometry"]["location"]["lat"],
              longitude         |-> maps.results[1]["geometry"]["location"]["lng"],
              formatted_address |-> maps.results[1]["formatted_address"]]))

(***************************************************************************)
(* handlers/address_lookup.py: handle, piece by piece.                     *)
(***************************************************************************)

\* str.strip(): from the first character that is not white space to the
\* last one
Strip_Nothing(s) == s

Strip(s) ==
    LET ink == {i \in 1..Len(s) : s[i] \notin {" ", "\t", "\n"}}
    IN  IF ink = {} THEN << >>
        ELSE SubSeq(s, CHOOSE i \in ink : \A j \in ink : i <= j,
                       CHOOSE i \in ink : \A j \in ink : i >= j)

\* "if not address or not isinstance(address, str) or not address.strip()"
AddressMissing_NoStrip(address) ==
    \/ address.t = "null"
    \/ address.t # "str"
    \/ address.v = << >>

AddressMissing(address) ==
    \/ address.t = "null"
    \/ address.t # "str"
    \/ address.v = << >>
    \/ Strip(address.v) = << >>

\* "if not geocoding_result"
GeocodeMissing_Never(geocoding_result) == FALSE

GeocodeMissing(geocoding_result) ==
    geocoding_result.t = "null" \/ DOMAIN geocoding_result.v = {}

\* what handle does with the outcome of the geocoding call
AfterGeocode(g) ==
    IF g.err # "" THEN ApiRaise(g.err, g.status)                 \* re-raised as is
    ELSE IF GeocodeMissing(g.value) THEN ApiRaise("INVALID_ADDRESS", 400)
    ELSE IF g.value.t # "dict" THEN ApiRaise("INTERNAL_ERROR", 500)  \* None["latitude"]
    ELSE ApiReturn(g.value)

\* "sum(len(reps) for reps in grouped_representatives.values())"
TotalCount(grouped) ==
    Len(grouped["federal"]) + Len(grouped["state"]) + Len(grouped["local"])

\* "[level for level, reps in grouped_representatives.items() if len(reps) > 0]"
GovernmentLevels_AllKeys(grouped) == InKeyOrder(DOMAIN grouped, 1)

GovernmentLevels(grouped) == InKeyOrder({k \in DOMAIN grouped : Len(grouped[k]) > 0}, 1)

\* the response built from the representatives the directory returned
BuildResponse(geocoding_result, openstates_representatives) ==
    LET grouped == group_by_government_level(openstates_representatives)
    IN  [representatives |-> grouped,
         metadata |-> [address |-> geocoding_result["formatted_address"],
                       coordinates |-> [latitude  |-> geocoding_result["latitude"],
                                        longitude |-> geocoding_result["longitude"]],
                       total_count |-> TotalCount(grouped),
                       government_levels |-> GovernmentLevels(grouped)],
         warnings |-> CoverageWarnings(TotalCount(grouped), GovernmentLevels(grouped))]

\* what handle does with the outcome of the coordinate query: an
\* ApiException is re-raised as is, any other exception becomes INTERNAL_ERROR
AfterQuery_Downgraded(q) ==
    IF q.err = "" THEN ApiReturn(q.value)
    ELSE IF q.status # 0 THEN ApiReturn(<< >>)
    ELSE ApiRaise("INTERNAL_ERROR", 500)

AfterQuery(q) ==
    IF q.err = "" THEN ApiReturn(q.value)
    ELSE IF q.status # 0 THEN ApiRaise(q.err, q.status)
    ELSE ApiRaise("INTERNAL_ERROR", 500)

(***************************************************************************)
(* utils/errors.py and handlers/address_lookup.py: lambda_handler.         *)
(* An exception is [state, code, status]; status 0 marks an exception that *)
(* is no ApiException.  The text of a message is not modelled: every       *)
(* ApiException carries one, written MessageText here.                     *)
(***************************************************************************)
ERROR_STATUS_CODES ==
    [MISSING_PARAMETER      |-> 400,
     INVALID_ADDRESS        |-> 400,
     ADDRESS_NOT_FOUND      |-> 404,
     EXTERNAL_SERVICE_ERROR |-> 503,
     RATE_LIMIT_EXCEEDED    |-> 503,
     INTERNAL_ERROR         |-> 500]

MessageText == "message"

\* "except ApiException as e" and "except Exception as e"
ErrorResponse_Always500(e) ==
    [statusCode |-> 500,
     body |-> [error |-> [code |-> e.code, message |-> MessageText]]]

ErrorResponse(e) ==
    IF e.status # 0
    THEN [statusCode |-> e.status,
          body |-> [error |-> [code |-> e.code, message |-> MessageText]]]
    ELSE [statusCode |-> 500,
          body |-> [error |-> [code |-> "INTERNAL_ERROR", message |-> MessageText]]]

(***************************************************************************)
(* services/google_civic.py: lookup_divisions.                             *)
(* The HTTP exchange is an input, as for the directory client.  The        *)
(* "divisions" object of a 200 answer keeps the order of its entries: it   *)
(* is [t |-> "object", items |-> the list of its [key, value] entries].    *)
(* A division returned is [ocd_id, name].                                  *)
(***************************************************************************)
\* error_data.get("error", {}).get("message", ...): the body must be an
\* object whose "error", when there is one, is an object
ErrorBodyReadable(json) ==
    /\ json.t = "dict"
    /\ Get(json.v, "error", JDict(EmptyDict)).t = "dict"

\* the loop over divisions_data.items()
RECURSIVE TransformDivisions(_, _)
TransformDivisions(items, i) ==
    IF i > Len(items) THEN Returned(<< >>)
    ELSE IF items[i].value.t # "dict" THEN Raised("AttributeError")
    ELSE LET rest == TransformDivisions(items, i + 1)
         IN  IF rest.err # "" THEN rest
             ELSE Returned(<<[ocd_id |-> items[i].key,
                              name |-> Get(items[i].value.v, "name", JStr(""))]>>
                           \o rest.value)

lookup_divisions(address, resp) ==
    IF address = << >> \/ Strip(address) = << >> THEN ApiRaise("INVALID_ADDRESS", 400)
    ELSE IF Len(address) > 500 THEN ApiRaise("INVALID_ADDRESS", 400)
    ELSE IF resp.transport # "ok" THEN ApiRaise("EXTERNAL_SERVICE_ERROR", 503)
    ELSE IF resp.status_code = 404
    THEN IF ErrorBodyReadable(resp.json) THEN ApiRaise("ADDRESS_NOT_FOUND", 404)
         ELSE ApiRaise("EXTERNAL_SERVICE_ERROR", 503)
    ELSE IF resp.status_code = 429
    THEN IF ErrorBodyReadable(resp.json) THEN ApiRaise("RATE_LIMIT_EXCEEDED", 503)
         ELSE ApiRaise("EXTERNAL_SERVICE_ERROR", 503)
    ELSE IF resp.status_code # 200 THEN ApiRaise("EXTERNAL_SERVICE_ERROR", 503)
    ELSE IF resp.json.t # "dict" THEN ApiRaise("EXTERNAL_SERVICE_ERROR", 503)
    ELSE LET divisions_data == Get(resp.json.v, "divisions",
                                   [t |-> "object", items |-> << >>])
         IN  IF divisions_data.t # "object"
             THEN ApiRaise("EXTERNAL_SERVICE_ERROR", 503)
             ELSE LET out == TransformDivisions(divisions_data.items, 1)
                  IN  IF out.err # "" THEN ApiRaise("EXTERNAL_SERVICE_ERROR", 503)
                      ELSE ApiReturn(out.value)

(***************************************************************************)
(* utils/validators.py: validate_address.                                  *)
(***************************************************************************)
MaxAddressLength == 500

\* "if len(address) > 500"
TooLong_Inclusive(address) == Len(address) >= MaxAddressLength

TooLong(address) == Len(address) > MaxAddressLength

\* the function returns None when the address passes, and raises otherwise
validate_address(address) ==
    IF address.t = "null" THEN ApiRaise("MISSING_PARAMETER", 400)
    ELSE IF address.v = << >> \/ Strip(address.v) = << >>
         THEN ApiRaise("INVALID_ADDRESS", 400)
    ELSE IF TooLong(address.v) THEN ApiRaise("INVALID_ADDRESS", 400)
    ELSE ApiReturn(JNull)

(***************************************************************************)
(* services/parameter_store.py: get_api_key under @lru_cache(maxsize=10).  *)
(* The cache is the list of its entries [name, value], the least recently  *)
(* used first.                                                             *)
(***************************************************************************)
maxsize == 10

\* position of the entry of name in the cache, 0 when it has none
EntryOf(entries, name) ==
    IF \E i \in 1..Len(entries) : entries[i].name = name
    THEN CHOOSE i \in 1..Len(entries) : entries[i].name = name
    ELSE 0

\* a hit: the entry becomes the most recently used
AfterHit_NoTouch(entries, i) == entries

AfterHit(entries, i) ==
    Append(SubSeq(entries, 1, i - 1) \o SubSeq(entries, i + 1, Len(entries)), entries[i])

\* a miss that the function answered: the new entry is added, in place of
\* the least recently used one when the cache is full
AfterMiss(entries, name, value) ==
    IF Len(entries) >= maxsize
    THEN Append(Tail(entries), [name |-> name, value |-> value])
    ELSE Append(entries, [name |-> name, value |-> value])

(***************************************************************************)
(* State.                                                                  *)
(***************************************************************************)
VARIABLES
    \* the classifier called on one identifier
    ocd_in,       \* the identifier passed to the classifier
    tier_out,     \* what parse_government_level(ocd_in) gave, once called
    parts_out,    \* what parse_ocd_id(ocd_in) gave, once called
    \* the division-enumeration flow
    divisions,    \* the divisions of the request, in the collaborator's order
    idx,          \* position of the next division to process
    kept,         \* the representatives kept so far, in insertion order
    warnings,     \* the warnings so far, in order of occurrence
    outcome,      \* running, or how the aggregation ended
    queried,      \* positions of the divisions requests.get was called for
    last,         \* the last call of get_representatives_by_division, and its answer
    failed,       \* positions of the divisions whose query failed, 429 apart
    first_seen,   \* per identifier, the first record the directory returned
    \* the point-query flow (AddressLookupHandler.handle)
    address,           \* the address parameter of the request
    pc,                \* where the request is: init, validate, geocode, query, done
    maps,              \* how the Google Maps call ended, once made
    geocoding_result,  \* what geocode returned to handle
    geocode_calls,     \* the addresses geocode was called with, in order
    coordinate_calls,  \* the <<latitude, longitude>> pairs queried, in order
    geo_exchange,      \* how the exchange of the coordinate query ended
    openstates_representatives,  \* what the coordinate query returned
    response,          \* the response handle returned, when it returned one
    raised,            \* how handle ended: running, success or the error
    http,              \* the HTTP response of lambda_handler, once returned
    \* the coordinate query called on its own
    coordinates,       \* the <<latitude, longitude>> it is called with
    geo_out,           \* what it gave, once called
    \* the credential cache (services/parameter_store.py)
    cache,             \* the entries [name, value], least recently used first
    provider_calls,    \* how many times the Parameter Store was asked
    calls,             \* how many times get_api_key was called
    hit_count,         \* how many calls were answered from the cache
    fail_count,        \* how many calls the Parameter Store refused
    key_out,           \* the last call of get_api_key and its result
    last_used,         \* per name, the number of its last successful call
    returned,          \* per name, the value its last successful call gave
    \* the address validator (utils/validators.py)
    va_in,             \* the address given to validate_address
    va_out,            \* what the call gave, once made
    \* one call of the directory client (services/openstates.py)
    cl_in,             \* the division and the HTTP exchange of the call
    cl_out,            \* what the call gave, once made
    \* one call of the divisions client (services/google_civic.py)
    civ_in,            \* the address and the HTTP exchange of the call
    civ_out            \* what the call gave, once made

ocdVars == <<ocd_in, tier_out, parts_out>>

aggVars == <<divisions, idx, kept, warnings, outcome, queried, last, failed, first_seen>>

ptVars == <<address, pc, maps, geocoding_result, geocode_calls, coordinate_calls,
            geo_exchange, openstates_representatives, response, raised, http>>

cacheVars == <<cache, provider_calls, calls, hit_count, fail_count, key_out,
               last_used, returned>>

validatorVars == <<va_in, va_out>>

clientVars == <<cl_in, cl_out, civ_in, civ_out>>

unitVars == <<coordinates, geo_out, cacheVars, validatorVars, clientVars>>

vars == <<ocdVars, aggVars, ptVars, unitVars>>

NotCalled == [called |-> FALSE, err |-> "", value |-> ""]

Called(r) == [called |-> TRUE, err |-> r.err, value |-> r.value]

Outcome(state, code, status) == [state |-> state, code |-> code, status |-> status]

NoCall ==
    [div |-> 0, requested |-> FALSE, status_code |-> 0, records |-> -1,
     err |-> "", reps |-> << >>]

\* the classifier is not in use
OcdIdle ==
    /\ ocd_in = << >>
    /\ tier_out = NotCalled
    /\ parts_out = NotCalled

NoMaps == [kind |-> "none"]

NoResponse == [representatives |-> [key \in {} |-> << >>], warnings |-> << >>]

NoHttp == [statusCode |-> 0]

\* the point-query flow is not in use
PtIdle ==
    /\ address = JNull
    /\ pc = "idle"
    /\ maps = NoMaps
    /\ geocoding_result = JNull
    /\ geocode_calls = << >>
    /\ coordinate_calls = << >>
    /\ geo_exchange = [kind |-> "none"]
    /\ openstates_representatives = << >>
    /\ response = NoResponse
    /\ raised = Outcome("idle", "", 0)
    /\ http = NoHttp

\* the coordinate query is not called on its own
GeoIdle ==
    /\ coordinates = <<0, 0>>
    /\ geo_out = [called |-> FALSE]

\* names of parameters: one more than the cache can hold
Names == 1..(maxsize + 1)

\* the cache as it is when the module is imported
CacheEmpty ==
    /\ cache = << >>
    /\ provider_calls = 0
    /\ calls = 0
    /\ hit_count = 0
    /\ fail_count = 0
    /\ key_out = [name |-> 0, err |-> "", value |-> 0, fetched |-> FALSE]
    /\ last_used = [n \in Names |-> 0]
    /\ returned = [n \in Names |-> 0]

\* validate_address is not called
ValidatorIdle ==
    /\ va_in = JNull
    /\ va_out = [called |-> FALSE]

\* the directory client and the divisions client are not called on their own
ClientIdle ==
    /\ cl_in = [ocd_id |-> << >>]
    /\ cl_out = [called |-> FALSE]
    /\ civ_in = [address |-> << >>]
    /\ civ_out = [called |-> FALSE]

\* nothing is called on its own
UnitIdle == GeoIdle /\ CacheEmpty /\ ValidatorIdle /\ ClientIdle

\* the division-enumeration flow is not in use
AggIdle ==
    /\ divisions = << >>
    /\ idx = 1
    /\ kept = << >>
    /\ warnings = << >>
    /\ outcome = Outcome("idle", "", 0)
    /\ queried = {}
    /\ last = NoCall
    /\ failed = {}
    /\ first_seen = EmptyDict

(***************************************************************************)
(* Identifiers the classifier is called on: the root marker followed by up *)
(* to MaxSegs segments of SegPool joined by "/", and a few strings without *)
(* the root marker.                                                        *)
(***************************************************************************)
SegCountryUs == CountryUs

SegCountryCa == <<"c","o","u","n","t","r","y",":","c","a">>

SegStateWa == <<"s","t","a","t","e",":","w","a">>

SegCd7 == <<"c","d",":","7">>

SegCountyKing == <<"c","o","u","n","t","y",":","k","i","n","g">>

SegPlaceSea == <<"p","l","a","c","e",":","s","e","a">>

SegSldu43 == <<"s","l","d","u",":","4","3">>

SegSldl1 == <<"s","l","d","l",":","1">>

SegDistrictDc == <<"d","i","s","t","r","i","c","t",":","d","c">>

SegPool == {SegCountryUs, SegCountryCa, SegStateWa, SegCd7, SegCountyKing,
            <<"c","o","u","n","t","y",":","9","t","h">>, SegPlaceSea, SegSldu43,
            SegSldl1, SegDistrictDc, <<"z","z">>}

\* "/".join(segs)
RECURSIVE Join(_)
Join(segs) ==
    IF segs = << >> THEN << >>
    ELSE IF Len(segs) = 1 THEN segs[1]
    ELSE segs[1] \o <<"/">> \o Join(Tail(segs))

(***************************************************************************)
(* The classifier specification: one identifier, classified and decomposed.*)
(***************************************************************************)
InitOcd ==
    /\ ocd_in \in {OcdPrefix \o Join(segs) :
                      segs \in (UNION {[1..n -> SegPool] : n \in 0..MaxSegs})}
                  \cup {<< >>, CountryUs, <<"x">> \o OcdPrefix \o CountryUs}
    /\ tier_out = NotCalled
    /\ parts_out = NotCalled
    /\ AggIdle
    /\ PtIdle
    /\ UnitIdle

ClassifyTier ==
    /\ ~tier_out.called
    /\ tier_out' = Called(parse_government_level(ocd_in))
    /\ UNCHANGED <<ocd_in, parts_out, aggVars, ptVars, unitVars>>

Decompose ==
    /\ ~parts_out.called
    /\ parts_out' = Called(parse_ocd_id(ocd_in))
    /\ UNCHANGED <<ocd_in, tier_out, aggVars, ptVars, unitVars>>

NextOcd == ClassifyTier \/ Decompose

SpecOcd == InitOcd /\ [][NextOcd]_vars

(***************************************************************************)
(* Inputs of the division-enumeration flow: the divisions of a request and *)
(* the responses of the legislator directory.                              *)
(***************************************************************************)
\* most divisions in one request
MaxDivs == 3

DivWa == OcdPrefix \o CountryUs \o <<"/">> \o SegStateWa

DivSeattle == DivWa \o <<"/">> \o SegPlaceSea

DivPool ==
    {OcdPrefix \o CountryUs,
     DivWa,
     OcdPrefix \o CountryUs \o <<"/","s","t","a","t","e",":","c","a","/">> \o SegSldl1,
     DivSeattle}

\* the identifier of the state senator, every other field different
PersonJaneAgain ==
    JDict([id |-> JStr("ocd-person/1"), name |-> JStr("Jane A. Doe"),
           current_role |-> JDict([title |-> JStr("US Representative"),
                                   division_id |-> JStr(DivWa \o <<"/">> \o SegCd7)]),
           party |-> JStr("Democratic"),
           links |-> JList(<<JDict([url |-> JStr("")]),
                             JDict([url |-> JStr("https://doe.example")])>>),
           image |-> JStr("https://doe.example/photo.jpg")])

\* no role, no party, no jurisdiction
PersonJohn == JDict([id |-> JStr("ocd-person/2"), name |-> JStr("John Smith")])

ResultLists ==
    {<< >>,
     <<PersonJohn>>,
     \* a state senator, then the same id again
     <<JDict([id |-> JStr("ocd-person/1"), name |-> JStr("Jane Doe"),
              current_role |-> JDict([title |-> JStr("State Senator"),
                                      division_id |-> JStr(DivWa \o <<"/">> \o SegSldu43)]),
              party |-> JList(<<JDict([name |-> JStr("Democratic")])>>),
              jurisdiction |-> JDict([name |-> JStr("Washington")])]),
       PersonJaneAgain, PersonJohn>>,
     \* a county official with a null name, and a record whose role names a
     \* division that is no OCD identifier
     <<PersonJaneAgain,
       JDict([id |-> JStr("ocd-person/3"), name |-> JNull,
              current_role |-> JDict([division_id |-> JStr(DivWa \o <<"/">> \o SegCountyKing)]),
              capitol_office |-> JDict([voice |-> JStr("360-555-0100")]),
              email |-> JStr("king@example.gov")]),
       JDict([id |-> JStr("ocd-person/5"), name |-> JStr("Odd Role"),
              current_role |-> JDict([title |-> JStr("Delegate"),
                                      division_id |-> JStr(<<"b","a","d">>)])])>>,
     \* a record whose current_role is null
     <<PersonJohn, JDict([id |-> JStr("ocd-person/4"), current_role |-> JNull])>>}

Response(transport, status_code, has_text, json) ==
    [transport |-> transport, status_code |-> status_code,
     has_text |-> has_text, json |-> json]

Responses ==
    {Response("timeout", 0, FALSE, JNull),
     Response("connection_error", 0, FALSE, JNull),
     Response("ok", 401, TRUE, JDict([error |-> JStr("unauthorized")])),
     Response("ok", 500, TRUE, JInvalid),
     Response("ok", 429, TRUE, JDict([error |-> JStr("Rate limit exceeded")])),
     Response("ok", 429, FALSE, JInvalid),
     Response("ok", 429, TRUE, JInvalid),
     Response("ok", 200, TRUE, JInvalid)}
    \cup {Response("ok", 200, TRUE, JDict([results |-> JList(rs)])) : rs \in ResultLists}

(***************************************************************************)
(* The aggregation over the divisions of one request.                      *)
(***************************************************************************)
\* a record whose identifier is already kept is discarded: first seen wins
RECURSIVE Merge(_, _, _)
Merge(acc, reps, i) ==
    IF i > Len(reps) THEN acc
    ELSE IF \E k \in 1..Len(acc) : acc[k].id = reps[i].id THEN Merge(acc, reps, i + 1)
    ELSE Merge(Append(acc, reps[i]), reps, i + 1)

\* per identifier, the transformation of the first record the directory
\* returned with it, over the sources that succeeded
RECURSIVE FirstSeenAfter(_, _, _, _)
FirstSeenAfter(fs, results, i, ocd_id) ==
    IF i > Len(results) THEN fs
    ELSE LET id == Get(results[i].v, "id", JNull)
         IN  IF id \in DOMAIN fs THEN FirstSeenAfter(fs, results, i + 1, ocd_id)
             ELSE FirstSeenAfter(
                      [k \in DOMAIN fs \cup {id} |->
                          IF k = id THEN TransformPerson(results[i].v, ocd_id).value
                          ELSE fs[k]],
                      results, i + 1, ocd_id)

ResultsOf(resp) ==
    IF resp.json.t = "dict" /\ "results" \in DOMAIN resp.json.v
    THEN resp.json.v["results"].v
    ELSE << >>

\* how many records a 200 answer carries; -1 for any other answer
RecordsIn(resp) ==
    IF resp.status_code = 200 /\ resp.json.t = "dict" /\ "results" \in DOMAIN resp.json.v
    THEN Len(resp.json.v["results"].v)
    ELSE -1

InitAgg ==
    /\ OcdIdle
    /\ PtIdle
    /\ UnitIdle
    /\ divisions \in UNION {[1..n -> DivPool] : n \in 1..MaxDivs}
    /\ idx = 1
    /\ kept = << >>
    /\ warnings = << >>
    /\ outcome = Outcome("running", "", 0)
    /\ queried = {}
    /\ last = NoCall
    /\ failed = {}
    /\ first_seen = EmptyDict

\* one division: query it and fold the answer into the result
AggregateDivision ==
    /\ outcome.state = "running"
    /\ idx <= Len(divisions)
    /\ \E resp \in Responses :
       \E r \in {get_representatives_by_division(divisions[idx], resp)} :
         LET ocd_id == divisions[idx]
             answered == r.requested /\ resp.transport = "ok"
         IN  /\ last' = [div |-> idx, requested |-> r.requested,
                         status_code |-> IF answered THEN resp.status_code ELSE 0,
                         records |-> IF answered THEN RecordsIn(resp) ELSE -1,
                         err |-> r.err, reps |-> r.reps]
             /\ queried' = IF r.requested THEN queried \cup {idx} ELSE queried
             /\ failed' = IF r.requested /\ (resp.transport # "ok" \/ resp.status_code \notin {200, 429})
                          THEN failed \cup {idx} ELSE failed
             /\ first_seen' = IF r.requested /\ r.err = ""
                              THEN FirstSeenAfter(first_seen, ResultsOf(resp), 1, ocd_id)
                              ELSE first_seen
             /\ IF r.err = "RATE_LIMIT_EXCEEDED"
                THEN /\ outcome' = Outcome("error", r.err, r.status)
                     /\ UNCHANGED <<idx, kept, warnings>>
                ELSE IF r.err # ""
                THEN /\ warnings' = Append(warnings, Warning("source_error", idx, << >>))
                     /\ idx' = idx + 1
                     /\ UNCHANGED <<kept, outcome>>
                \* a division whose level is not "state" was skipped before querying
                ELSE IF parse_ocd_id(ocd_id).err # ""
                        \/ parse_ocd_id(ocd_id).value.government_level # "state"
                THEN /\ idx' = idx + 1
                     /\ UNCHANGED <<kept, warnings, outcome>>
                ELSE IF r.reps = << >>
                THEN /\ warnings' = Append(warnings, Warning("no_data", idx, << >>))
                     /\ idx' = idx + 1
                     /\ UNCHANGED <<kept, outcome>>
                ELSE /\ kept' = Merge(kept, r.reps, 1)
                     /\ idx' = idx + 1
                     /\ UNCHANGED <<warnings, outcome>>
    /\ UNCHANGED <<divisions, ocdVars, ptVars, unitVars>>

\* all divisions processed: the coverage warning, then success
FinishAggregation ==
    /\ outcome.state = "running"
    /\ idx > Len(divisions)
    /\ warnings' = warnings \o CoverageWarnings(Len(kept),
                           Sorted({kept[i].government_level : i \in 1..Len(kept)}))
    /\ outcome' = Outcome("success", "", 200)
    /\ UNCHANGED <<divisions, idx, kept, queried, last, failed, first_seen, ocdVars, ptVars, unitVars>>

Next == AggregateDivision \/ FinishAggregation

Spec == InitAgg /\ [][Next]_vars

(***************************************************************************)
(* Inputs of the point-query flow: the address of the request, how the     *)
(* Google Maps call ends and how the coordinate query ends.                *)
(***************************************************************************)
\* most representatives one coordinate query returns
MaxReps == 3

Place(lat, lng, formatted) ==
    [geometry |-> [location |-> [lat |-> lat, lng |-> lng]],
     formatted_address |-> formatted]

MapsOutcomes ==
    {[kind |-> "results", results |-> rs] :
        rs \in {<< >>,
                <<Place(47, -122, "1 A St, Seattle, WA")>>,
                <<Place(90, -180, "Pole"), Place(47, -122, "1 A St, Seattle, WA")>>,
                <<Place(91, 0, "Beyond")>>,
                <<[formatted_address |-> "Nowhere"]>>}}
    \cup {[kind |-> k] : k \in {"Timeout", "ApiError", "HTTPError",
                                "TransportError", "Exception"}}

RepFederal == [id |-> "ocd-person/f", government_level |-> "federal"]

\* a tier that is none of the three keys
RepTribal == [id |-> "ocd-person/t", government_level |-> "tribal"]

\* no tier at all
RepNoLevel == [id |-> "ocd-person/n"]

RepPool ==
    {RepFederal,
     [id |-> "ocd-person/s", government_level |-> "state"],
     [id |-> "ocd-person/l", government_level |-> "local"],
     RepTribal,
     RepNoLevel}

\* the coordinate-based query of the legislator directory: the coordinates
\* are validated before the request; how the exchange ends is the input
\* exchange, a list of representatives or the name of a failure
CoordinatesInRange_Exclusive(latitude, longitude) ==
    /\ latitude > -90 /\ latitude < 90
    /\ longitude > -180 /\ longitude < 180

CoordinatesInRange(latitude, longitude) ==
    /\ latitude >= -90 /\ latitude <= 90
    /\ longitude >= -180 /\ longitude <= 180

get_representatives_by_coordinates(latitude, longitude, exchange) ==
    IF ~CoordinatesInRange(latitude, longitude)
    THEN [err |-> "ValueError", status |-> 0, value |-> << >>, requested |-> FALSE]
    ELSE IF exchange.kind = "rate_limit"
    THEN [err |-> "RATE_LIMIT_EXCEEDED", status |-> 503, value |-> << >>, requested |-> TRUE]
    ELSE IF exchange.kind = "timeout"
    THEN [err |-> "EXTERNAL_SERVICE_ERROR", status |-> 503, value |-> << >>, requested |-> TRUE]
    ELSE [err |-> "", status |-> 0, value |-> exchange.reps, requested |-> TRUE]

Exchanges ==
    {[kind |-> "rate_limit"], [kind |-> "timeout"]}
    \cup {[kind |-> "ok", reps |-> reps] : reps \in UNION {[1..n -> RepPool] : n \in 0..MaxReps}}

(***************************************************************************)
(* The point-query flow: AddressLookupHandler.handle, one step per         *)
(* collaborator call.                                                      *)
(***************************************************************************)
InitPoint ==
    /\ OcdIdle
    /\ AggIdle
    /\ UnitIdle
    /\ address \in {JNull, JStr(<< >>), JStr(<<" ", "\t">>),
                    JStr(<<" ", "1", " ", "A", " ">>), JStr(<<"X", "Y", "Z">>)}
    /\ pc = "init"
    /\ maps = NoMaps
    /\ geocoding_result = JNull
    /\ geocode_calls = << >>
    /\ coordinate_calls = << >>
    /\ geo_exchange = [kind |-> "none"]
    /\ openstates_representatives = << >>
    /\ response = NoResponse
    /\ raised = Outcome("running", "", 0)
    /\ http = NoHttp

\* AddressLookupHandler(): the API keys are fetched and the clients built,
\* or the failure is raised as INTERNAL_ERROR
HandlerInit ==
    /\ pc = "init"
    /\ \E initialized \in BOOLEAN :
         IF initialized
         THEN /\ pc' = "validate"
              /\ UNCHANGED raised
         ELSE /\ raised' = Outcome("error", "INTERNAL_ERROR", 500)
              /\ pc' = "done"
    /\ UNCHANGED <<address, maps, geocoding_result, geocode_calls, coordinate_calls,
                   geo_exchange, openstates_representatives, response, http,
                   ocdVars, aggVars, unitVars>>

\* address validation
HandleValidate ==
    /\ pc = "validate"
    /\ IF AddressMissing(address)
       THEN /\ raised' = Outcome("error", "MISSING_PARAMETER", 400)
            /\ pc' = "done"
       ELSE /\ pc' = "geocode"
            /\ UNCHANGED raised
    /\ UNCHANGED <<address, maps, geocoding_result, geocode_calls, coordinate_calls,
                   geo_exchange, openstates_representatives, response, http,
                   ocdVars, aggVars, unitVars>>

\* step 1: geocode the trimmed address
HandleGeocode ==
    /\ pc = "geocode"
    /\ \E m \in MapsOutcomes :
       \E g \in {AfterGeocode(geocode(Strip(address.v), m))} :
         /\ maps' = m
         /\ geocode_calls' = Append(geocode_calls, Strip(address.v))
         /\ IF g.err # ""
            THEN /\ raised' = Outcome("error", g.err, g.status)
                 /\ pc' = "done"
                 /\ UNCHANGED geocoding_result
            ELSE /\ geocoding_result' = g.value
                 /\ pc' = "query"
                 /\ UNCHANGED raised
    /\ UNCHANGED <<address, coordinate_calls, geo_exchange, openstates_representatives,
                   response, http, ocdVars, aggVars, unitVars>>

\* step 2 and the response: query the directory by coordinates, group,
\* count, warn
HandleQuery ==
    /\ pc = "query"
    /\ \E exchange \in Exchanges :
       \E q \in {AfterQuery(get_representatives_by_coordinates(
                     geocoding_result.v["latitude"], geocoding_result.v["longitude"],
                     exchange))} :
         /\ coordinate_calls' = Append(coordinate_calls,
                <<geocoding_result.v["latitude"], geocoding_result.v["longitude"]>>)
         /\ geo_exchange' = exchange
         /\ IF q.err # ""
            THEN /\ raised' = Outcome("error", q.err, q.status)
                 /\ UNCHANGED <<openstates_representatives, response>>
            ELSE /\ openstates_representatives' = q.value
                 /\ response' = BuildResponse(geocoding_result.v, q.value)
                 /\ raised' = Outcome("success", "", 200)
         /\ pc' = "done"
    /\ UNCHANGED <<address, maps, geocoding_result, geocode_calls, http, ocdVars, aggVars, unitVars>>

\* lambda_handler: the HTTP response for what handle returned or raised
LambdaReturn ==
    /\ pc = "done"
    /\ http = NoHttp
    /\ http' = IF raised.state = "success" THEN [statusCode |-> 200, body |-> response]
               ELSE ErrorResponse(raised)
    /\ UNCHANGED <<address, pc, maps, geocoding_result, geocode_calls, coordinate_calls,
                   geo_exchange, openstates_representatives, response, raised,
                   ocdVars, aggVars, unitVars>>

NextPoint == HandlerInit \/ HandleValidate \/ HandleGeocode \/ HandleQuery \/ LambdaReturn

SpecPoint == InitPoint /\ [][NextPoint]_vars

(***************************************************************************)
(* Properties of the classifier (SpecOcd).                                 *)
(***************************************************************************)
\* the code's own notion of a valid US identifier
ValidUs(s) == StartsWith(s, OcdPrefix) /\ Contains(s, CountryUs)

\* s ends in a segment "cd:" followed by digits only
EndsInCdNumber(s) ==
    \E i \in 1..Len(s) :
        /\ OccursAt(s, SlashCd, i)
        /\ i + Len(SlashCd) <= Len(s)
        /\ \A j \in (i + Len(SlashCd))..Len(s) : s[j] \in DigitChars

\* seg is the key, a colon and a non-empty value
HasKey(seg, key) == StartsWith(seg, key \o <<":">>) /\ Len(seg) > Len(key) + 1

\* s is exactly the root marker, country:us and one state segment
ExactCountryState(s) ==
    LET segs == Split(s, "/")
    IN  /\ Len(segs) = 3
        /\ StartsWith(s, OcdPrefix \o CountryUs \o <<"/">>)
        /\ HasKey(segs[3], KeyState)

\* s is a country+state identifier extended by one county or place segment
CountryStateThenLocal(s) ==
    LET segs == Split(s, "/")
    IN  /\ Len(segs) = 4
        /\ StartsWith(s, OcdPrefix \o CountryUs \o <<"/">>)
        /\ HasKey(segs[3], KeyState)
        /\ HasKey(segs[4], KeyCounty) \/ HasKey(segs[4], KeyPlace)

\* C8: every valid US identifier that ends in a congressional-district
\* segment cd:<number> is classified federal, whatever segments precede it.
C8_CdSuffixIsFederal ==
    (tier_out.called /\ ValidUs(ocd_in) /\ EndsInCdNumber(ocd_in))
        => (tier_out.err = "" /\ tier_out.value = "federal")

\* C8 happens: a county segment precedes the district and the result is federal
C8_Witness ==
    /\ tier_out.called
    /\ ocd_in = OcdPrefix \o Join(<<SegCountryUs, SegCountyKing, SegCd7>>)
    /\ tier_out.value = "federal"

\* C9: every identifier of the exact form country+state is classified state,
\* and every such identifier extended by a county or a place segment, with
\* any segment value, is classified local.
C9_StateThenLocal ==
    tier_out.called =>
        /\ ExactCountryState(ocd_in) => tier_out.value = "state"
        /\ CountryStateThenLocal(ocd_in) => tier_out.value = "local"

\* C10: the country root alone, and the country root followed by district:dc
\* and nothing else, are classified federal.
C10_RootAndDcAreFederal ==
    (tier_out.called
        /\ ocd_in \in {OcdPrefix \o SegCountryUs,
                       OcdPrefix \o Join(<<SegCountryUs, SegDistrictDc>>)})
        => (tier_out.err = "" /\ tier_out.value = "federal")

\* C10 happens: the federal district is classified federal
C10_Witness ==
    /\ tier_out.called
    /\ ocd_in = OcdPrefix \o Join(<<SegCountryUs, SegDistrictDc>>)
    /\ tier_out.value = "federal"

(***************************************************************************)
(* Properties of the division-enumeration flow (Spec).                     *)
(***************************************************************************)
\* the positions in the warnings of those of one kind about division i
WarningsAbout(kind, i) ==
    {k \in 1..Len(warnings) : warnings[k].kind = kind /\ warnings[k].div = i}

RateLimitAbort == Outcome("error", "RATE_LIMIT_EXCEEDED", 503)

\* C1: whenever the directory answers a division's query with HTTP 429, the
\* aggregation ends with the fatal RATE_LIMIT_EXCEEDED error (503): nothing
\* is returned, no warning stands in for it and no other code replaces it.
C1_RateLimitAlwaysFatal ==
    (last.requested /\ last.status_code = 429) =>
        /\ outcome = RateLimitAbort
        /\ last.err = "RATE_LIMIT_EXCEEDED"
        /\ WarningsAbout("source_error", last.div) = {}
        /\ idx = last.div

\* C2: a division whose query fails with a non-fatal external-service error
\* never ends the aggregation; when the aggregation succeeds, every such
\* division has exactly one warning, and the result holds exactly the
\* representatives the divisions that answered returned.
C2_PartialFailureContinues ==
    /\ outcome.state = "error" => last.div \notin failed
    /\ \A i \in failed :
           /\ i \in queried
           /\ Cardinality(WarningsAbout("source_error", i)) = 1
           /\ (outcome.state = "running" /\ last.div = i) => idx = i + 1
    /\ outcome.state = "success" =>
           /\ idx = Len(divisions) + 1
           /\ {kept[k].id : k \in 1..Len(kept)} = DOMAIN first_seen

\* C2 happens: three divisions, the second one fails, two representatives
\* and one warning, about division 2
C2_Witness ==
    /\ Len(divisions) = 3
    /\ outcome.state = "success"
    /\ failed = {2}
    /\ queried = {1, 2, 3}
    /\ Len(kept) = 2
    /\ {k \in 1..Len(warnings) : warnings[k].div # 0} = WarningsAbout("source_error", 2)
    /\ Cardinality(WarningsAbout("source_error", 2)) = 1

\* C3: an identifier appears at most once in what one query returns and at
\* most once in the kept representatives, and the kept representative has
\* the fields of the first record seen with that identifier.
C3_FirstSeenWins ==
    /\ \A k, l \in 1..Len(last.reps) : last.reps[k].id = last.reps[l].id => k = l
    /\ \A k, l \in 1..Len(kept) : kept[k].id = kept[l].id => k = l
    /\ \A k \in 1..Len(kept) :
           /\ kept[k].id \in DOMAIN first_seen
           /\ kept[k] = first_seen[kept[k].id]

\* C3 happens: a later division returned a record with the identifier of a
\* kept representative and other fields, and the kept one is unchanged
C3_Witness ==
    /\ last.div > 1
    /\ \E j \in 1..Len(last.reps) :
           /\ last.reps[j].id = JStr("ocd-person/1")
           /\ last.reps[j].name = JStr("Jane A. Doe")
    /\ \E k \in 1..Len(kept) :
           /\ kept[k].id = JStr("ocd-person/1")
           /\ kept[k].name = JStr("Jane Doe")
           /\ kept[k].government_level = "state"

\* the decomposed tier of a division
TierOf(ocd_id) == parse_ocd_id(ocd_id).value.government_level

C5_EmptyDivisionIsNoError ==
    /\ (last.requested /\ last.records = 0) =>
           /\ last.err = ""
           /\ last.reps = << >>
           /\ outcome.state # "error"
           /\ Cardinality(WarningsAbout("no_data", last.div)) = 1
           /\ WarningsAbout("source_error", last.div) = {}
           /\ outcome.state = "running" => idx = last.div + 1
    /\ last.err = "RATE_LIMIT_EXCEEDED" => outcome = RateLimitAbort

\* C5 happens: an empty division, then a rate-limit error that aborts
C5_Witness ==
    /\ outcome = RateLimitAbort
    /\ last.status_code = 429
    /\ \E i \in 1..(last.div - 1) : WarningsAbout("no_data", i) # {}

(***************************************************************************)
(* Properties of the point-query flow (SpecPoint).                         *)
(***************************************************************************)
\* the tiers that have at least one representative in the response
KeptTiers ==
    {t \in DOMAIN response.representatives : response.representatives[t] # << >>}

\* the names of a set of tiers, in alphabetical order
Alphabetical(S) ==
    CHOOSE names \in {<< >>, <<"federal">>, <<"local">>, <<"state">>,
                      <<"federal", "local">>, <<"federal", "state">>,
                      <<"local", "state">>, <<"federal", "local", "state">>} :
        {names[i] : i \in 1..Len(names)} = S

\* C6: on every successful response, no representative at all gives the "no
\* representative data" warning; otherwise a missing tier gives exactly one
\* warning naming exactly the missing tiers in alphabetical order; and with
\* the three tiers present there is no coverage warning.
C6_CoverageWarning ==
    raised.state = "success" =>
        /\ DOMAIN response.representatives = {"federal", "state", "local"}
        /\ IF KeptTiers = {}
           THEN response.warnings = <<Warning("no_representatives", 0, << >>)>>
           ELSE IF KeptTiers # {"federal", "state", "local"}
           THEN response.warnings =
                    <<Warning("missing_levels", 0,
                              Alphabetical({"federal", "state", "local"} \ KeptTiers))>>
           ELSE response.warnings = << >>

\* C6 happens: only federal representatives, one warning naming local, state
C6_Witness ==
    /\ raised.state = "success"
    /\ KeptTiers = {"federal"}
    /\ response.warnings = <<Warning("missing_levels", 0, <<"local", "state">>)>>

C11_SameInvalidIdentifierErrors ==
    /\ tier_out.called =>
           /\ tier_out.err = "ValueError" <=> ~ValidUs(ocd_in)
           /\ tier_out.err \in {"", "ValueError"}
           /\ tier_out.err # "" => tier_out.value = ""
    /\ parts_out.called =>
           /\ parts_out.err = "ValueError" <=> ~ValidUs(ocd_in)
           /\ parts_out.err \in {"", "ValueError"}
           /\ parts_out.err # "" => parts_out.value = ""
    /\ (tier_out.called /\ parts_out.called) => tier_out.err = parts_out.err

\* C11 happens: a well-rooted identifier of another country fails in both
C11_Witness ==
    /\ ocd_in = OcdPrefix \o Join(<<SegCountryCa, SegStateWa>>)
    /\ tier_out.called /\ tier_out.err = "ValueError"
    /\ parts_out.called /\ parts_out.err = "ValueError"

\* C12: every representative the normalizer produces, and so every kept
\* one, has a tier that is one of federal, state, local, whatever optional
\* fields its raw record has or lacks.
C12_TierIsEnumerated ==
    /\ \A k \in 1..Len(last.reps) :
           last.reps[k].government_level \in {"federal", "state", "local"}
    /\ \A k \in 1..Len(kept) :
           kept[k].government_level \in {"federal", "state", "local"}
    /\ \A id \in DOMAIN first_seen :
           first_seen[id].government_level \in {"federal", "state", "local"}

\* C12 happens: a record without any role and one whose role names an
\* unusable division are kept, each with a tier
C12_Witness ==
    /\ \E k \in 1..Len(kept) :
           kept[k].id = JStr("ocd-person/2") /\ kept[k].government_level = "state"
    /\ \E k \in 1..Len(kept) :
           kept[k].id = JStr("ocd-person/5") /\ kept[k].government_level = "state"
    /\ \E k \in 1..Len(kept) : kept[k].government_level = "local"

\* how many times r occurs in the list
Occurrences(list, r) == Cardinality({i \in 1..Len(list) : list[i] = r})

\* C13: the grouped response has exactly the keys federal, state and local,
\* each a list; every representative the point query returned is in exactly
\* one of the three lists, and metadata.total_count is the number returned.
C13_GroupedShape ==
    raised.state = "success" =>
        LET grouped == response.representatives
        IN  /\ DOMAIN grouped = {"federal", "state", "local"}
            /\ \A key \in DOMAIN grouped : grouped[key] \in Seq(RepPool)
            /\ \A r \in RepPool :
                   /\ Occurrences(grouped["federal"], r) + Occurrences(grouped["state"], r)
                          + Occurrences(grouped["local"], r)
                      = Occurrences(openstates_representatives, r)
                   /\ Cardinality({key \in DOMAIN grouped :
                                       Occurrences(grouped[key], r) > 0}) <= 1
            /\ response.metadata.total_count = Len(openstates_representatives)

\* C13 happens: three representatives, two of them of no known tier, and an
\* empty local list
C13_Witness ==
    /\ raised.state = "success"
    /\ openstates_representatives = <<RepFederal, RepTribal, RepNoLevel>>
    /\ response.representatives["local"] = << >>
    /\ response.metadata.total_count = 3

\* C14 as stated: metadata.government_levels is the sorted list of exactly
\* the tiers that have at least one representative.
C14_LevelsSorted ==
    raised.state = "success" =>
        response.metadata.government_levels = Alphabetical(KeptTiers)

\* C14 as amended: metadata.government_levels lists exactly the tiers that
\* have at least one representative, each once, in the fixed order federal,
\* state, local (the empty list when there is no representative).
C14_LevelsInKeyOrder ==
    raised.state = "success" =>
        response.metadata.government_levels =
            SelectSeq(<<"federal", "state", "local">>, LAMBDA t : t \in KeptTiers)

\* C14 happens: representatives in state and local only
C14_Witness ==
    /\ raised.state = "success"
    /\ KeptTiers = {"state", "local"}
    /\ response.metadata.government_levels = <<"state", "local">>

\* C15: every error of the lookup carries the HTTP status fixed by its code
\* (400 for MISSING_PARAMETER and INVALID_ADDRESS, 404 for ADDRESS_NOT_FOUND,
\* 503 for RATE_LIMIT_EXCEEDED and EXTERNAL_SERVICE_ERROR, 500 for
\* INTERNAL_ERROR), and the HTTP response of a failed request has that status
\* and a body that is one error object holding the code and the message.
C15_StatusFixedByCode ==
    raised.state = "error" =>
        /\ raised.code \in DOMAIN ERROR_STATUS_CODES
        /\ raised.status = ERROR_STATUS_CODES[raised.code]
        /\ http # NoHttp =>
               /\ http.statusCode = ERROR_STATUS_CODES[raised.code]
               /\ DOMAIN http.body = {"error"}
               /\ DOMAIN http.body.error = {"code", "message"}
               /\ http.body.error.code = raised.code

\* C15 happens: an upstream failure answered with 503
C15_Witness ==
    /\ raised = Outcome("error", "RATE_LIMIT_EXCEEDED", 503)
    /\ http.statusCode = 503
    /\ http.body.error.code = "RATE_LIMIT_EXCEEDED"

\* the address is None, empty or made of whitespace only
Blank(a) ==
    \/ a = JNull
    \/ a.t = "str" /\ \A i \in 1..Len(a.v) : a.v[i] \in {" ", "\t", "\n"}

\* C16: handle, called with an address that is None, empty or whitespace
\* only, raises MISSING_PARAMETER with status 400, and neither the geocoding
\* call nor the directory query is issued.
C16_BlankAddressIsMissingParameter ==
    /\ [][(pc = "validate" /\ Blank(address)) =>
              /\ raised' = Outcome("error", "MISSING_PARAMETER", 400)
              /\ pc' = "done"]_vars
    /\ [](Blank(address) =>
              /\ geocode_calls = << >>
              /\ coordinate_calls = << >>
              /\ raised.state # "success"
              /\ http # NoHttp => http.statusCode # 200)

\* C16 happens: a whitespace-only address was refused
C16_Witness ==
    /\ address = JStr(<<" ", "\t">>)
    /\ pc = "done"
    /\ raised = Outcome("error", "MISSING_PARAMETER", 400)
    /\ geocode_calls = << >>

(***************************************************************************)
(* The coordinate query called on its own (SpecGeo), in whole degrees.     *)
(***************************************************************************)

InitGeo ==
    /\ OcdIdle
    /\ AggIdle
    /\ PtIdle
    /\ coordinates \in {-91, -90, 0, 47, 90, 91} \X {-181, -180, -122, 0, 180, 181}
    /\ geo_out = [called |-> FALSE]
    /\ CacheEmpty
    /\ ValidatorIdle
    /\ ClientIdle

QueryByCoordinates ==
    /\ ~geo_out.called
    /\ \E exchange \in Exchanges :
       \E q \in {get_representatives_by_coordinates(coordinates[1], coordinates[2],
                                                    exchange)} :
         geo_out' = [called |-> TRUE, err |-> q.err, status |-> q.status,
                     value |-> q.value, requested |-> q.requested]
    /\ UNCHANGED <<coordinates, cacheVars, validatorVars, clientVars, ocdVars, aggVars, ptVars>>

NextGeo == QueryByCoordinates

SpecGeo == InitGeo /\ [][NextGeo]_vars

\* C17: the coordinate query accepts exactly the latitudes from -90 to 90
\* and the longitudes from -180 to 180, the bounds included; a value outside
\* either range fails with the invalid-coordinates error and no request is
\* made.
C17_CoordinateRanges ==
    geo_out.called =>
        LET inside == /\ coordinates[1] \in -90..90
                      /\ coordinates[2] \in -180..180
        IN  /\ inside => (geo_out.requested /\ geo_out.err # "ValueError")
            /\ ~inside => (~geo_out.requested /\ geo_out.err = "ValueError"
                           /\ geo_out.value = << >>)

\* C17 happens: the corner of the range is accepted and answered
C17_Witness ==
    /\ coordinates = <<90, -180>>
    /\ geo_out.called
    /\ geo_out.requested
    /\ geo_out.err = ""
    /\ geo_out.value # << >>

(***************************************************************************)
(* The credential cache (SpecCache): calls of get_api_key, one after the   *)
(* other.  The Parameter Store gives a value that differs from one request *)
(* to the next (the number of the request), or refuses with a ClientError. *)
(* A name asked for the first time is the smallest one never asked.        *)
(***************************************************************************)
\* most calls of get_api_key in a run
MaxCalls == 13

\* most calls in a run that add no entry to the cache: those answered from
\* the cache and those the Parameter Store refuses
MaxNoInsert == 2

InitCache ==
    /\ OcdIdle
    /\ AggIdle
    /\ PtIdle
    /\ GeoIdle
    /\ CacheEmpty
    /\ ValidatorIdle
    /\ ClientIdle

\* the names asked so far
Asked == {n \in Names : last_used[n] # 0}

\* get_api_key(name), answered from the cache
GetApiKeyHit ==
    /\ calls < MaxCalls
    /\ hit_count + fail_count < MaxNoInsert
    /\ \E name \in Names :
         LET i == EntryOf(cache, name)
         IN  /\ i # 0
             /\ cache' = AfterHit(cache, i)
             /\ key_out' = [name |-> name, err |-> "", value |-> cache[i].value,
                            fetched |-> FALSE]
             /\ last_used' = [last_used EXCEPT ![name] = calls + 1]
             /\ returned' = [returned EXCEPT ![name] = cache[i].value]
    /\ calls' = calls + 1
    /\ hit_count' = hit_count + 1
    /\ UNCHANGED <<provider_calls, fail_count, coordinates, geo_out,
                   validatorVars, clientVars, ocdVars, aggVars, ptVars>>

\* get_api_key(name), not in the cache: the Parameter Store answers
GetApiKeyMiss ==
    /\ calls < MaxCalls
    /\ \E name \in Names :
         /\ EntryOf(cache, name) = 0
         /\ \A n \in Names : n < name => n \in Asked
         /\ cache' = AfterMiss(cache, name, provider_calls + 1)
         /\ key_out' = [name |-> name, err |-> "", value |-> provider_calls + 1,
                        fetched |-> TRUE]
         /\ last_used' = [last_used EXCEPT ![name] = calls + 1]
         /\ returned' = [returned EXCEPT ![name] = provider_calls + 1]
    /\ calls' = calls + 1
    /\ provider_calls' = provider_calls + 1
    /\ UNCHANGED <<hit_count, fail_count, coordinates, geo_out,
                   validatorVars, clientVars, ocdVars, aggVars, ptVars>>

\* get_api_key(name), not in the cache: the Parameter Store refuses, the
\* ClientError becomes INTERNAL_ERROR and nothing is cached
GetApiKeyFail ==
    /\ calls < MaxCalls
    /\ hit_count + fail_count < MaxNoInsert
    /\ \E name \in Names :
         /\ EntryOf(cache, name) = 0
         /\ \A n \in Names : n < name => n \in Asked
         /\ key_out' = [name |-> name, err |-> "INTERNAL_ERROR", value |-> 0,
                        fetched |-> TRUE]
    /\ calls' = calls + 1
    /\ provider_calls' = provider_calls + 1
    /\ fail_count' = fail_count + 1
    /\ UNCHANGED <<cache, hit_count, last_used, returned, coordinates, geo_out,
                   validatorVars, clientVars, ocdVars, aggVars, ptVars>>

NextCache == GetApiKeyHit \/ GetApiKeyMiss \/ GetApiKeyFail

SpecCache == InitCache /\ [][NextCache]_vars

\* the names in the cache
CachedNames == {cache[i].name : i \in 1..Len(cache)}

\* the names an LRU cache of maxsize entries still holds, read from the
\* calls alone: those answered at least once, fewer than maxsize other
\* names having been answered more recently
NotEvicted ==
    {n \in Names :
        /\ last_used[n] # 0
        /\ Cardinality({m \in Names : last_used[m] > last_used[n]}) < maxsize}

\* C19: once get_api_key(name) has returned a value, a later call for the
\* same name that has not been evicted returns that value and does not ask
\* the Parameter Store; the cache never holds more than maxsize (10) names,
\* and the names it holds are the maxsize most recently used ones.
C19_CredentialCache ==
    /\ [](/\ Len(cache) <= maxsize
          /\ Cardinality(CachedNames) = Len(cache)
          /\ CachedNames = NotEvicted)
    /\ [][(calls' = calls + 1 /\ key_out'.name \in NotEvicted)
            => /\ key_out'.err = ""
               /\ key_out'.value = returned[key_out'.name]
               /\ provider_calls' = provider_calls]_vars

\* the cache is full, name 2 was evicted in favour of name 1 that had been
\* used again, and name 1 is answered with its first value
C19_Witness ==
    /\ Len(cache) = maxsize
    /\ 2 \in Asked \ CachedNames
    /\ key_out = [name |-> 1, err |-> "", value |-> 1, fetched |-> FALSE]
    /\ provider_calls > maxsize

(***************************************************************************)
(* The address validator (SpecValidate): validate_address called once on  *)
(* None, on every short string of blanks, letters and apostrophes, and on  *)
(* strings around the maximum length.                                      *)
(***************************************************************************)
\* longest of the short addresses
MaxAddr == 3

\* n times the character c
Fill(n, c) == [i \in 1..n |-> c]

\* None, the short addresses, and the long ones: letters only, blanks only,
\* letters between two blanks, and letters after an apostrophe
ValidatorInputs ==
    {JNull} \cup
    {JStr(a) : a \in
        UNION {[1..n -> {" ", "\n", "a", "'"}] : n \in 0..MaxAddr} \cup
        UNION {{Fill(n, "a"), Fill(n, " "),
                <<" ">> \o Fill(n - 2, "a") \o <<" ">>,
                <<"'">> \o Fill(n - 1, "a")} :
               n \in (MaxAddressLength - 1)..(MaxAddressLength + 2)}}

InitValidate ==
    /\ OcdIdle
    /\ AggIdle
    /\ PtIdle
    /\ GeoIdle
    /\ CacheEmpty
    /\ ClientIdle
    /\ va_in \in ValidatorInputs
    /\ va_out = [called |-> FALSE]

ValidateAddress ==
    /\ ~va_out.called
    /\ va_out' = [called |-> TRUE, result |-> validate_address(va_in)]
    /\ UNCHANGED <<va_in, coordinates, geo_out, cacheVars, clientVars, ocdVars, aggVars, ptVars>>

NextValidate == ValidateAddress

SpecValidate == InitValidate /\ [][NextValidate]_vars

\* the address has a character that is not white space
HasInk(a) == \E i \in 1..Len(a.v) : a.v[i] \notin {" ", "\t", "\n"}

\* C20: validate_address raises MISSING_PARAMETER (400) exactly when the
\* address is None, raises INVALID_ADDRESS (400) exactly when it is empty,
\* whitespace-only or longer than 500 characters, and accepts every other
\* address, among them one of exactly 500 characters and ones with special
\* characters.
C20_ValidateAddress ==
    va_out.called =>
        /\ (va_out.result = [err |-> "MISSING_PARAMETER", status |-> 400, value |-> JNull])
             <=> (va_in = JNull)
        /\ (va_out.result = [err |-> "INVALID_ADDRESS", status |-> 400, value |-> JNull])
             <=> (va_in # JNull /\ (~HasInk(va_in) \/ Len(va_in.v) > 500))
        /\ (va_out.result = [err |-> "", status |-> 0, value |-> JNull])
             <=> (va_in # JNull /\ HasInk(va_in) /\ Len(va_in.v) <= 500)

\* an address of exactly 500 characters with an apostrophe was accepted
C20_Witness ==
    /\ va_out.called
    /\ va_in # JNull
    /\ Len(va_in.v) = 500
    /\ \E i \in 1..Len(va_in.v) : va_in.v[i] = "'"
    /\ va_out.result.err = ""


\* the segments of an identifier that starts with the root marker
SegmentsOf(s) == Split(Tail_(s, Len(OcdPrefix) + 1), "/")

\* the identifier has a segment key:value, the value not empty
HasSegment(s, key) == \E i \in 1..Len(SegmentsOf(s)) : HasKey(SegmentsOf(s)[i], key)

\* the identifier has a segment key:<number>
HasNumberSegment(s, key) ==
    \E i \in 1..Len(SegmentsOf(s)) :
        /\ HasKey(SegmentsOf(s)[i], key)
        /\ SegmentsOf(s)[i][Len(key) + 2] \in DigitChars

\* the identifier starts with the root marker and the country root
RootedInUs(s) ==
    /\ StartsWith(s, OcdPrefix \o CountryUs)
    /\ SegmentsOf(s)[1] = CountryUs

\* the tier the nine rules give, read in their order on the segments
FirstRuleTier(s) ==
    IF HasNumberSegment(s, <<"c","d">>) THEN "federal"
    ELSE IF SegmentsOf(s) \in {<<CountryUs>>, <<CountryUs, SegDistrictDc>>} THEN "federal"
    ELSE IF HasSegment(s, KeyCounty) THEN "local"
    ELSE IF HasSegment(s, KeyPlace) THEN "local"
    ELSE IF HasNumberSegment(s, <<"s","l","d","u">>) THEN "state"
    ELSE IF HasNumberSegment(s, <<"s","l","d","l">>) THEN "state"
    ELSE IF ExactCountryState(s) THEN "state"
    ELSE IF HasSegment(s, KeyState) THEN "state"
    ELSE "local"

\* C21: classify_tier gives the tier of the first of the nine rules, taken
\* in the order cd, root or federal district, county, place, sldu, sldl,
\* exact country+state, any state segment, default local, that the
\* identifier matches: county or place together with sldu or sldl is local,
\* cd together with county is federal, and none of rules 1 to 8 is local.
C21_FirstRuleDecides ==
    (tier_out.called /\ RootedInUs(ocd_in))
        => /\ tier_out.err = ""
           /\ tier_out.value = FirstRuleTier(ocd_in)


\* the values of the segments key:value of the identifier
ValuesOf(s, key) ==
    {Tail_(SegmentsOf(s)[i], Len(key) + 2) :
        i \in {j \in 1..Len(SegmentsOf(s)) : HasKey(SegmentsOf(s)[j], key)}}

\* the first key of the priority list cd, sldu, sldl, county, place,
\* district that the identifier has a segment for, << >> when it has none
FirstListedKey(s) ==
    IF HasSegment(s, <<"c","d">>) THEN <<"c","d">>
    ELSE IF HasSegment(s, <<"s","l","d","u">>) THEN <<"s","l","d","u">>
    ELSE IF HasSegment(s, <<"s","l","d","l">>) THEN <<"s","l","d","l">>
    ELSE IF HasSegment(s, KeyCounty) THEN KeyCounty
    ELSE IF HasSegment(s, KeyPlace) THEN KeyPlace
    ELSE IF HasSegment(s, <<"d","i","s","t","r","i","c","t">>)
         THEN <<"d","i","s","t","r","i","c","t">>
    ELSE << >>

\* C22: decompose returns the country code, the state code when the
\* identifier has a state segment and no state entry otherwise, the tier
\* that classify_tier derives, and as division type the first key of the
\* list cd, sldu, sldl, county, place, district that occurs in the identifier
\* (wherever it stands in the identifier) with a value of that key; it
\* reports no division type when none of the keys occurs.
C22_DecomposeComponents ==
    (parts_out.called /\ parts_out.err = "")
        => LET v == parts_out.value
               country == <<"c","o","u","n","t","r","y">>
           IN  /\ country \in DOMAIN v.comps
               /\ v.comps[country] \in ValuesOf(ocd_in, country)
               /\ (KeyState \in DOMAIN v.comps) <=> HasSegment(ocd_in, KeyState)
               /\ KeyState \in DOMAIN v.comps
                    => v.comps[KeyState] \in ValuesOf(ocd_in, KeyState)
               /\ tier_out.called => v.government_level = tier_out.value
               /\ v.has_type <=> FirstListedKey(ocd_in) # << >>
               /\ v.has_type
                    => /\ v.division_type = FirstListedKey(ocd_in)
                       /\ v.identifier \in ValuesOf(ocd_in, v.division_type)

\* an identifier with a county segment before an upper-chamber segment was
\* decomposed and classified: the division type is the upper chamber
C22_Witness ==
    /\ parts_out.called
    /\ parts_out.err = ""
    /\ tier_out.called
    /\ ocd_in = OcdPrefix \o CountryUs \o <<"/">> \o SegCountyKing \o <<"/">> \o SegSldu43
    /\ parts_out.value.division_type = <<"s","l","d","u">>
    /\ parts_out.value.identifier = <<"4","3">>


(***************************************************************************)
(* The directory client on its own (SpecClient): one call of               *)
(* get_representatives_by_division, on a division and an HTTP exchange.    *)
(* The records of a 200 answer are built field by field: each field is     *)
(* absent, null, or one of a few values of the right or of a wrong type.   *)
(***************************************************************************)
\* name: absent, a string, null
NameFields == <<EmptyDict, "name" :> JStr("Ann Lee"), "name" :> JNull>>

\* title of the role: absent, a string, null
TitleFields == <<EmptyDict, "title" :> JStr("Senator"), "title" :> JNull>>

\* the role's own division: absent, null, a city, a congressional district,
\* no OCD identifier, a number
RoleDivisionFields ==
    <<EmptyDict,
      "division_id" :> JNull,
      "division_id" :> JStr(DivSeattle),
      "division_id" :> JStr(DivWa \o <<"/">> \o SegCd7),
      "division_id" :> JStr(<<"b","a","d">>),
      "division_id" :> [t |-> "num", n |-> 5]>>

\* party: absent, an empty list, a list of party objects, an object without
\* name, a list of strings, a string, null, an object, a number
PartyFields ==
    <<EmptyDict,
      "party" :> JList(<< >>),
      "party" :> JList(<<JDict([name |-> JStr("Green")]), JDict([name |-> JStr("Red")])>>),
      "party" :> JList(<<JDict(EmptyDict)>>),
      "party" :> JList(<<JStr("Green")>>),
      "party" :> JStr("Independent"),
      "party" :> JNull,
      "party" :> JDict([name |-> JStr("Green")]),
      "party" :> [t |-> "num", n |-> 5]>>

\* a record with the chosen fields; role 0 is no current_role, role 1 a
\* null one
ClientRecord(n, role, t, d, p) ==
    JDict(("id" :> JStr("ocd-person/9")) @@ NameFields[n] @@ PartyFields[p]
          @@ (IF role = 0 THEN EmptyDict
              ELSE IF role = 1 THEN "current_role" :> JNull
              ELSE "current_role" :> JDict(TitleFields[t] @@ RoleDivisionFields[d])))

\* the call is given one of the answers of the aggregation flow, or a 200
\* answer with one record, alone or after a good one
InitClient ==
    /\ OcdIdle
    /\ AggIdle
    /\ PtIdle
    /\ GeoIdle
    /\ CacheEmpty
    /\ ValidatorIdle
    /\ \E ocd_id \in {DivWa, DivSeattle, <<"b","a","d">>} :
          \/ \E resp \in Responses : cl_in = [ocd_id |-> ocd_id, resp |-> resp]
          \/ \E n \in DOMAIN NameFields, role \in 0..2, t \in DOMAIN TitleFields,
                d \in DOMAIN RoleDivisionFields, p \in DOMAIN PartyFields,
                after \in BOOLEAN :
                cl_in = [ocd_id |-> ocd_id,
                         resp |-> Response("ok", 200, TRUE,
                             JDict([results |-> JList(
                                 (IF after THEN <<PersonJohn>> ELSE << >>)
                                 \o <<ClientRecord(n, role, t, d, p)>>)]))]
    /\ cl_out = [called |-> FALSE]
    /\ civ_in = [address |-> << >>]
    /\ civ_out = [called |-> FALSE]

QueryDivision ==
    /\ ~cl_out.called
    /\ cl_out' = [called |-> TRUE,
                  result |-> get_representatives_by_division(cl_in.ocd_id, cl_in.resp)]
    /\ UNCHANGED <<cl_in, civ_in, civ_out, coordinates, geo_out, cacheVars,
                   validatorVars, ocdVars, aggVars, ptVars>>

NextClient == QueryDivision

SpecClient == InitClient /\ [][NextClient]_vars

(***************************************************************************)
(* The divisions client on its own (SpecCivic): one call of                *)
(* lookup_divisions, on an address and an HTTP exchange.                   *)
(***************************************************************************)
\* the entries a 200 answer is built from: two named divisions, one without
\* a name, one whose value is null
DivisionEntries ==
    <<[key |-> "ocd-division/country:us",
       value |-> JDict("name" :> JStr("United States"))],
      [key |-> "ocd-division/country:us/state:wa",
       value |-> JDict("name" :> JStr("Washington"))],
      [key |-> "ocd-division/country:us/state:wa/place:seattle",
       value |-> JDict(EmptyDict)],
      [key |-> "ocd-division/country:us/state:wa/sldu:43",
       value |-> JNull]>>

\* the most divisions in one answer
MaxCivicDivs == 3

\* the address is empty, blank, plain, at the length limit or over it; the
\* exchange fails, is refused, or is answered with up to MaxCivicDivs
\* different entries in any order
InitCivic ==
    /\ OcdIdle
    /\ AggIdle
    /\ PtIdle
    /\ GeoIdle
    /\ CacheEmpty
    /\ ValidatorIdle
    /\ cl_in = [ocd_id |-> << >>]
    /\ cl_out = [called |-> FALSE]
    /\ \E addr \in {<< >>, <<" ">>, <<"1", " ", "A">>, Fill(500, "a"), Fill(501, "a")} :
          \/ \E i \in 1..12 :
                civ_in = [address |-> addr,
                          resp |-> <<[transport |-> "timeout", status_code |-> 0, json |-> JNull],
                                     [transport |-> "connection_error", status_code |-> 0, json |-> JNull],
                                     [transport |-> "ok", status_code |-> 404, json |-> JDict("error" :> JDict("message" :> JStr("No address")))],
                                     [transport |-> "ok", status_code |-> 404, json |-> JDict(EmptyDict)],
                                     [transport |-> "ok", status_code |-> 404, json |-> JDict("error" :> JStr("gone"))],
                                     [transport |-> "ok", status_code |-> 404, json |-> JInvalid],
                                     [transport |-> "ok", status_code |-> 429, json |-> JDict(EmptyDict)],
                                     [transport |-> "ok", status_code |-> 429, json |-> JInvalid],
                                     [transport |-> "ok", status_code |-> 500, json |-> JInvalid],
                                     [transport |-> "ok", status_code |-> 200, json |-> JInvalid],
                                     [transport |-> "ok", status_code |-> 200, json |-> JDict(EmptyDict)],
                                     [transport |-> "ok", status_code |-> 200, json |-> JDict("divisions" :> JNull)]>>[i]]
          \/ \E n \in 0..MaxCivicDivs :
                \E pick \in [1..n -> DOMAIN DivisionEntries] :
                   /\ \A i, j \in 1..n : pick[i] = pick[j] => i = j
                   /\ civ_in = [address |-> addr,
                                resp |-> [transport |-> "ok", status_code |-> 200,
                                          json |-> JDict("divisions" :>
                                              [t |-> "object",
                                               items |-> [i \in 1..n |-> DivisionEntries[pick[i]]]])]]
    /\ civ_out = [called |-> FALSE]

LookupDivisions ==
    /\ ~civ_out.called
    /\ civ_out' = [called |-> TRUE,
                   result |-> lookup_divisions(civ_in.address, civ_in.resp)]
    /\ UNCHANGED <<civ_in, cl_in, cl_out, coordinates, geo_out, cacheVars,
                   validatorVars, ocdVars, aggVars, ptVars>>

NextCivic == LookupDivisions

SpecCivic == InitCivic /\ [][NextCivic]_vars


\* the records of the 200 answer given to the call
RawResults == cl_in.resp.json.v["results"].v

\* the record a normalized representative comes from: the first of the
\* answer that has its id
RawOf(rep) ==
    RawResults[CHOOSE i \in 1..Len(RawResults) :
                   /\ Get(RawResults[i].v, "id", JNull) = rep.id
                   /\ \A j \in 1..(i - 1) : Get(RawResults[j].v, "id", JNull) # rep.id].v

\* the call returned normally the representatives of a 200 answer
Normalized == cl_out.called /\ cl_out.result.err = "" /\ cl_out.result.reps # << >>

\* the division identifier of the record's own role, null when it has none
OwnDivision(raw) ==
    IF "current_role" \in DOMAIN raw /\ raw["current_role"].t = "dict"
    THEN Get(raw["current_role"].v, "division_id", JNull)
    ELSE JNull

\* the identifier is a string that the classifier accepts
Classifies(d) == d.t = "str" /\ parse_government_level(d.v).err = ""

\* C23: the tier of a normalized representative is the classification of
\* the division identifier of its own role when that one is present and
\* classifies, and the classification of the queried division otherwise.
C23_OwnDivisionFirst ==
    Normalized =>
        \A k \in 1..Len(cl_out.result.reps) :
            LET rep == cl_out.result.reps[k]
                own == OwnDivision(RawOf(rep))
            IN  rep.government_level =
                    IF Classifies(own) THEN parse_government_level(own.v).value
                    ELSE parse_government_level(cl_in.ocd_id).value

\* the queried division is a state, the role's own division a congressional
\* district, and the representative is federal
C23_Witness ==
    /\ Normalized
    /\ cl_in.ocd_id = DivWa
    /\ \E k \in 1..Len(cl_out.result.reps) :
         /\ OwnDivision(RawOf(cl_out.result.reps[k])) = JStr(DivWa \o <<"/">> \o SegCd7)
         /\ cl_out.result.reps[k].government_level = "federal"


\* the title of the record's own role, absent when it has no role
OwnTitle(raw) ==
    IF "current_role" \in DOMAIN raw /\ raw["current_role"].t = "dict"
    THEN Get(raw["current_role"].v, "title", JStr(""))
    ELSE JStr("")

\* C24: in every normalized representative the name and the office are
\* strings, the upstream value when there is one and the empty string
\* otherwise; they are never null, whatever the record holds for them.
C24_NameAndOfficeAreStrings ==
    Normalized =>
        \A k \in 1..Len(cl_out.result.reps) :
            LET rep == cl_out.result.reps[k]
                raw == RawOf(rep)
                name == Get(raw, "name", JStr(""))
                title == OwnTitle(raw)
            IN  /\ rep.name.t = "str"
                /\ rep.office.t = "str"
                /\ rep.name = IF name.t = "str" THEN name ELSE JStr("")
                /\ rep.office = IF title.t = "str" THEN title ELSE JStr("")


\* C25: the normalized party is the name of the first party object when the
\* upstream field is a non-empty list, the string itself when it is a bare
\* string, and None otherwise (absent, empty list, any other type).
C25_PartyExtraction ==
    Normalized =>
        \A k \in 1..Len(cl_out.result.reps) :
            LET rep == cl_out.result.reps[k]
                raw == RawOf(rep)
            IN  IF "party" \notin DOMAIN raw THEN rep.party = JNull
                ELSE IF raw["party"].t = "list" /\ raw["party"].v # << >>
                THEN /\ raw["party"].v[1].t = "dict"
                     /\ rep.party = Get(raw["party"].v[1].v, "name", JNull)
                ELSE IF raw["party"].t = "str" THEN rep.party = raw["party"]
                ELSE rep.party = JNull

\* a record with two party objects was normalized with the name of the first
C25_Witness ==
    /\ Normalized
    /\ \E k \in 1..Len(cl_out.result.reps) :
         /\ "party" \in DOMAIN RawOf(cl_out.result.reps[k])
         /\ RawOf(cl_out.result.reps[k])["party"].t = "list"
         /\ Len(RawOf(cl_out.result.reps[k])["party"].v) = 2
         /\ cl_out.result.reps[k].party = JStr("Green")


\* the representative has no tier, or one that is none of the three
OfNoKnownTier(r) ==
    "government_level" \notin DOMAIN r
        \/ r.government_level \notin {"federal", "state", "local"}

GeocodeGave == geocode(Strip(address.v), maps)

\* what the coordinate query gave to handle
QueryGave ==
    get_representatives_by_coordinates(coordinate_calls[1][1], coordinate_calls[1][2],
                                       geo_exchange)

ServiceErrors == {"EXTERNAL_SERVICE_ERROR", "RATE_LIMIT_EXCEEDED"}

\* C27: in the point-query flow an external-service or rate-limit error of
\* the geocoding call or of the coordinate query leaves handle with its code
\* and status and no response is produced; an exception that is no
\* ApiException leaves handle as INTERNAL_ERROR with status 500.
C27_ServiceErrorsPropagate ==
    /\ (maps.kind # "none" /\ GeocodeGave.err \in ServiceErrors)
         => /\ raised = Outcome("error", GeocodeGave.err, GeocodeGave.status)
            /\ response = NoResponse
            /\ coordinate_calls = << >>
    /\ (geo_exchange.kind # "none" /\ QueryGave.err \in ServiceErrors)
         => /\ raised = Outcome("error", QueryGave.err, QueryGave.status)
            /\ response = NoResponse
    /\ (geo_exchange.kind # "none" /\ QueryGave.err = "ValueError")
         => /\ raised = Outcome("error", "INTERNAL_ERROR", 500)
            /\ response = NoResponse

\* the directory refused the coordinate query for its rate limit, after a
\* geocoding that succeeded, and handle raised that error
C27_Witness ==
    /\ geo_exchange.kind = "rate_limit"
    /\ geocoding_result # JNull
    /\ QueryGave.err = "RATE_LIMIT_EXCEEDED"
    /\ raised = Outcome("error", "RATE_LIMIT_EXCEEDED", 503)


\* s without the white space at its two ends
RECURSIVE Trimmed(_)
Trimmed(s) ==
    IF s = << >> THEN s
    ELSE IF s[1] \in {" ", "\t", "\n"} THEN Trimmed(Tail(s))
    ELSE IF s[Len(s)] \in {" ", "\t", "\n"} THEN Trimmed(SubSeq(s, 1, Len(s) - 1))
    ELSE s

\* C28: within one point-query request geocoding is called once, with the
\* trimmed address; the coordinate query is issued only after geocoding
\* returned a result, at most once, with the latitude and longitude that
\* geocoding returned; the response is assembled only after that query
\* returned.
C28_SequentialCalls ==
    /\ [](/\ Len(geocode_calls) <= 1
          /\ Len(coordinate_calls) <= 1
          /\ geocode_calls # << >> => geocode_calls[1] = Trimmed(address.v)
          /\ (pc = "query" \/ raised.state = "success") => Len(geocode_calls) = 1
          /\ coordinate_calls # << >>
               => /\ Len(geocode_calls) = 1
                  /\ GeocodeGave.err = ""
                  /\ GeocodeGave.value.t = "dict"
                  /\ coordinate_calls[1] = <<GeocodeGave.value.v["latitude"],
                                             GeocodeGave.value.v["longitude"]>>
          /\ response # NoResponse
               => /\ Len(coordinate_calls) = 1
                  /\ QueryGave.err = ""
                  /\ openstates_representatives = QueryGave.value)
    /\ [][/\ geocode_calls' # geocode_calls => coordinate_calls = << >> /\ pc = "geocode"
          /\ coordinate_calls' # coordinate_calls
               => /\ pc = "query"
                  /\ geocode_calls' = geocode_calls
                  /\ response = NoResponse]_vars

\* a request whose address had blanks around it ended in a response: one
\* geocoding call, one coordinate query
C28_Witness ==
    /\ raised.state = "success"
    /\ address.v = <<" ", "1", " ", "A", " ">>
    /\ geocode_calls = <<<<"1", " ", "A">>>>
    /\ coordinate_calls = <<<<90, -180>>>>
    /\ response # NoResponse

\* the address passes the client's own checks and the exchange was answered
CivicAnswered ==
    /\ Strip(civ_in.address) # << >>
    /\ Len(civ_in.address) <= 500
    /\ civ_in.resp.transport = "ok"

\* the entries of the "divisions" object of the 200 answer given to the call
\* (none when the answer has no such object)
ReportedDivisions ==
    Get(civ_in.resp.json.v, "divisions", [t |-> "object", items |-> << >>]).items

\* the collaborator found no divisions: a readable 404 answer, or a 200
\* answer that lists none
NoDivisionsFound ==
    /\ CivicAnswered
    /\ \/ civ_in.resp.status_code = 404 /\ ErrorBodyReadable(civ_in.resp.json)
       \/ /\ civ_in.resp.status_code = 200
          /\ civ_in.resp.json.t = "dict"
          /\ Get(civ_in.resp.json.v, "divisions",
                 [t |-> "object", items |-> << >>]).t = "object"
          /\ ReportedDivisions = << >>

\* C29: lookup_divisions raises ADDRESS_NOT_FOUND (404) when no divisions are
\* found for the address; whenever it returns normally the list is not empty
\* and has one entry, identifier and name, per division the collaborator
\* reported, in the collaborator's order.
C29_DivisionsLookup ==
    civ_out.called =>
        /\ NoDivisionsFound =>
              /\ civ_out.result.err = "ADDRESS_NOT_FOUND"
              /\ civ_out.result.status = 404
        /\ civ_out.result.err = "" =>
              /\ civ_out.result.value # << >>
              /\ Len(civ_out.result.value) = Len(ReportedDivisions)
              /\ \A i \in 1..Len(ReportedDivisions) :
                    /\ civ_out.result.value[i].ocd_id = ReportedDivisions[i].key
                    /\ civ_out.result.value[i].name =
                          Get(ReportedDivisions[i].value.v, "name", JStr(""))

\* the records of the 200 answer cannot all be transformed: one of them
\* raises
TransformFails ==
    /\ cl_in.resp.transport = "ok"
    /\ cl_in.resp.status_code = 200
    /\ cl_in.resp.json.t = "dict"
    /\ "results" \in DOMAIN cl_in.resp.json.v
    /\ cl_in.resp.json.v["results"].t = "list"
    /\ TransformResults(RawResults, 1, {}, << >>, cl_in.ocd_id).err # ""

\* the body of the 429 answer cannot be read as an object
Malformed429 ==
    /\ cl_in.resp.transport = "ok"
    /\ cl_in.resp.status_code = 429
    /\ cl_in.resp.has_text
    /\ cl_in.resp.json.t # "dict"

=============================================================================
